---- MODULE Spec2Model ----
(***************************************************************************)
(* Verification model of the nengo_spinnaker on-chip kernels: the shared   *)
(* filtered-input subsystem, the LIF ensemble kernel (three generations of *)
(* its timer handler and two of its spike recorder), the value-source      *)
(* kernel, the simulation controller and the Rx / Filter / Tx bridge.      *)
(*                                                                         *)
(* value_t / accum is the signed s16.15 fixed-point type: a value is held  *)
(* as the integer bits(v), 1.0 = 32768.  The inputs drawn below keep every *)
(* sum and every 64-bit product inside the signed 32-bit range, where the  *)
(* machine arithmetic and integer arithmetic agree.                        *)
(***************************************************************************)
EXTENDS Integers, Sequences, FiniteSets, TLC

(* ------------------------------ bounds -------------------------------- *)
MaxPackets == 2
MaxSteps == 2

(* ------------------------- fixed-point helpers ------------------------ *)
ONE == 32768

\* accum * accum: the double-width product shifted right arithmetically by
\* the 15 fraction bits, floor(a * b / 2^15).  The product is formed from
\* the 15-bit halves of the operands so that no intermediate value leaves
\* the checker's integer range.
KMul(a, b) ==
  LET ah == a \div ONE
      al == a % ONE
      bh == b \div ONE
      bl == b % ONE
  IN ah * b + al * bh + ((al * bl) \div ONE)

RECURSIVE BitAnd(_, _)
BitAnd(a, b) ==
  IF a = 0 \/ b = 0 THEN 0
  ELSE (a % 2) * (b % 2) + 2 * BitAnd(a \div 2, b \div 2)

RECURSIVE BitXor(_, _)
BitXor(a, b) ==
  IF a = 0 THEN b
  ELSE IF b = 0 THEN a
  ELSE ((a + b) % 2) + 2 * BitXor(a \div 2, b \div 2)

\* kbits / bitsk reinterpret a 32-bit word as an accum and back: the word is
\* held here by its two's-complement reading, so both preserve it.
kbits(w) == w
bitsk(v) == v

VARIABLES
  kernel,        \* which kernel is run: "input", "ensemble", "source",
                 \*   "controller", "bridge", "relay", "load",
                 \*   "worker", "command", "lfsr"
  g_input,       \* filtered_input_t: n_filters, n_dimensions, n_routes,
                 \*   routes, filters (filter, n_filter, accumulator, filtered),
                 \*   input
  step,          \* position of the timer handler inside input_filter_step
  hist,          \* history of the input subsystem kept for the properties
  g_ensemble,    \* ensemble_parameters_t: n_neurons, t_ref, dt_over_t_rc,
                 \*   i_bias, status, encoders, decoders
  g_pes,         \* pes_parameters_t
  gp_output_values, \* decoded output buffer, one value per output dimension
  lfsr,          \* LFSR for spike perturbation
  recd,          \* recording_buffer_t
  sdram,         \* the off-chip recording region, word offset -> word
  sim,           \* generation of the handler, run flag, tick counter,
                 \*   simulation_ticks, g_n_output_dimensions
  tick,          \* position and locals of the ensemble timer handler
  net,           \* multicast packets sent since the current tick began
  ehist,         \* history of the ensemble kept for the properties
  vs,            \* value source: pars, n_blocks, current_block, slots,
                 \*   keys, run flag, tick counter, simulation_ticks,
                 \*   the queue of the DMA controller
  ctl,           \* simulation controller: num_nodes, cur_node,
                 \*   cur_node_keys, ping_send_time, pong_received,
                 \*   last_correction, min/max_correction, correction_range,
                 \*   position of on_timer_tick, the reference timer
  chist,         \* history of the controller kept for the properties
  rx,            \* Rx core: g_sdp_rx and the generation of its handlers
  flt,           \* Filter core: its g_input, delay_remaining, position of
                 \*   filter_update inside input_filter_step
  tx,            \* Tx core: its g_input, delay_remaining, position of
                 \*   sdp_tx_update inside input_filter_step
  host           \* the host: messages sent, frames received, and the
                 \*   history of the bridge kept for the properties

ivars == <<g_input, step, hist>>
evars == <<g_ensemble, g_pes, gp_output_values, lfsr, recd, sdram, sim, tick,
           net, ehist>>
vars == <<kernel, g_input, step, hist, g_ensemble, g_pes, gp_output_values,
          lfsr, recd, sdram, sim, tick, net, ehist, vs, ctl, chist, rx, flt,
          tx, host>>

svars == <<vs>>
cvars == <<ctl, chist>>
bvars == <<rx, flt, tx, host>>

\* Value of the variables of a kernel that is not the one being run.
Unused == <<>>

NoController == ctl = Unused /\ chist = Unused
NoBridge == rx = Unused /\ flt = Unused /\ tx = Unused /\ host = Unused

(* ====================================================================== *)
(* Filtered-input subsystem                                               *)
(* ====================================================================== *)

Dims(g) == 0 .. (g.n_dimensions - 1)
Filters(g) == 0 .. (g.n_filters - 1)
Routes(g) == 0 .. (g.n_routes - 1)

\* input_buffer_initialise followed by get_filters for one filter: the two
\* coefficients are copied from the filter region.
NewFilter(c, nd) ==
  [filter |-> c[1], n_filter |-> c[2],
   accumulator |-> [d \in 0 .. (nd - 1) |-> 0],
   filtered |-> [d \in 0 .. (nd - 1) |-> 0]]

\* initialise_input + get_filters + get_filter_routes
LoadInput(nd, coefs, table) ==
  [n_dimensions |-> nd,
   n_filters |-> Len(coefs),
   n_routes |-> Len(table),
   routes |-> [r \in 0 .. (Len(table) - 1) |-> table[r + 1]],
   filters |-> [f \in 0 .. (Len(coefs) - 1) |-> NewFilter(coefs[f + 1], nd)],
   input |-> [d \in 0 .. (nd - 1) |-> 0]]

\* input_buffer_acc: additive accumulation into one cell of one filter.
input_buffer_acc(g, f, d, v) ==
  [g EXCEPT !.filters[f].accumulator[d] = @ + v]

\* The route loop of incoming_dimension_value_callback: the index of the
\* route the loop stops at, scanning from i; -1 when the loop falls through.
RECURSIVE ScanRoutes(_, _, _)
ScanRoutesLast(g, i, key) ==
  LET m == {r \in Routes(g) : BitAnd(key, g.routes[r].mask) = g.routes[r].key}
  IN IF m = {} THEN -1 ELSE CHOOSE r \in m : \A q \in m : q <= r
ScanRoutes(g, i, key) ==
  IF i >= g.n_routes THEN -1
  ELSE IF BitAnd(key, g.routes[i].mask) = g.routes[i].key THEN i
  ELSE ScanRoutes(g, i + 1, key)

incoming_dimension_value_callback(g, key, payload) ==
  LET i == ScanRoutes(g, 0, key)
  IN IF i = -1 THEN g
     ELSE input_buffer_acc(g, g.routes[i].filter,
                           BitAnd(key, g.routes[i].dimension_mask),
                           kbits(payload))

\* input_buffer_step, body of the loop for dimension d, first two statements:
\* filtered[d] *= filter; filtered[d] += accumulator[d] * n_filter.
\* The accumulator cell is read once, here.
FilterDimNoDecay(g, f, d) ==
  LET b == g.filters[f]
  IN [g EXCEPT !.filters[f].filtered[d] =
        b.filtered[d] + KMul(b.accumulator[d], b.n_filter)]
FilterDim(g, f, d) ==
  LET b == g.filters[f]
  IN [g EXCEPT !.filters[f].filtered[d] =
        KMul(b.filtered[d], b.filter) + KMul(b.accumulator[d], b.n_filter)]

\* input_buffer_step, third statement: accumulator[d] = 0.
ZeroDim(g, f, d) == [g EXCEPT !.filters[f].accumulator[d] = 0]

\* input_filter_step, first loop: input[d] = 0 for every d.
ZeroInput(g) == [g EXCEPT !.input = [d \in Dims(g) |-> 0]]

\* input_filter_step, inner loop after input_buffer_step(filters[f]):
\* input[d] += filters[f]->filtered[d] for every d.
AddFilteredOverwrite(g, f) ==
  [g EXCEPT !.input = [d \in Dims(g) |-> g.filters[f].filtered[d]]]
AddFiltered(g, f) ==
  [g EXCEPT !.input = [d \in Dims(g) |-> @[d] + g.filters[f].filtered[d]]]

\* input_filter_step run from start to end with no packet in between.
RECURSIVE BufferStepFrom(_, _, _)
BufferStepFrom(g, f, d) ==
  IF d >= g.n_dimensions THEN g
  ELSE BufferStepFrom(ZeroDim(FilterDim(g, f, d), f, d), f, d + 1)

RECURSIVE FilterStepFrom(_, _)
FilterStepFrom(g, f) ==
  IF f >= g.n_filters THEN g
  ELSE FilterStepFrom(AddFiltered(BufferStepFrom(g, f, 0), f), f + 1)

input_filter_step(g) == FilterStepFrom(ZeroInput(g), 0)

(* ---------- configurations of the input subsystem that are run -------- *)
CoefChoices == { <<0, ONE>>, <<16384, 16384>> }

RouteTables ==
  { \* disjoint routes, keys with bit 3 set match nothing
    << [key |-> 0, mask |-> 12, filter |-> 0, dimension_mask |-> 1],
       [key |-> 4, mask |-> 12, filter |-> 1, dimension_mask |-> 1] >>,
    \* the second route also matches every key the first one matches
    << [key |-> 4, mask |-> 4, filter |-> 1, dimension_mask |-> 1],
       [key |-> 0, mask |-> 0, filter |-> 0, dimension_mask |-> 1] >> }

PacketKeys == {0, 5, 9}
PacketPayloads == {3, ONE}

IdleStep == [pc |-> "idle", f |-> 0, d |-> 0]

NoHist(g) ==
  [packets |-> 0, steps |-> 0,
   owed |-> [f \in Filters(g) |-> [d \in Dims(g) |-> 0]],
   prevFiltered |-> [f \in Filters(g) |-> [d \in Dims(g) |-> 0]],
   prevAccum |-> [f \in Filters(g) |-> [d \in Dims(g) |-> 0]],
   pkt_in_step |-> FALSE,
   last |-> [key |-> 0, payload |-> 0, before |-> <<>>]]

\* What the input vector holds when c_main returns: initialise_input
\* allocates it with spin1_malloc and nothing writes it before the first
\* step.
InitialInputs == {0, 7}

InitInput ==
  /\ kernel = "input"
  /\ \E j \in InitialInputs :
       \/ \E c0 \in CoefChoices, c1 \in CoefChoices, t \in RouteTables :
            g_input = [LoadInput(2, <<c0, c1>>, t) EXCEPT
                         !.input = [d \in 0 .. 1 |-> j]]
       \* a kernel with no filter and no route
       \/ g_input = [LoadInput(2, <<>>, <<>>) EXCEPT
                       !.input = [d \in 0 .. 1 |-> j]]
  /\ step = IdleStep
  /\ hist = NoHist(g_input)
  /\ g_ensemble = Unused /\ g_pes = Unused /\ gp_output_values = Unused
  /\ lfsr = Unused /\ recd = Unused /\ sdram = Unused /\ sim = Unused
  /\ tick = Unused /\ net = Unused /\ ehist = Unused /\ vs = Unused
  /\ NoController /\ NoBridge

\* The routes a key matches, and the cell its payload is owed to: the
\* lowest-numbered matching route.
Matching(g, key) ==
  {r \in Routes(g) : BitAnd(key, g.routes[r].mask) = g.routes[r].key}
FirstMatch(g, key) ==
  CHOOSE r \in Matching(g, key) : \A q \in Matching(g, key) : r <= q

\* MCPL_PACKET_RECEIVED, priority -1 (FIQ): runs to completion at any point
\* of the timer handler.
McplRx(key, payload) ==
  /\ hist.packets < MaxPackets
  /\ g_input' = incoming_dimension_value_callback(g_input, key, payload)
  /\ hist' = [hist EXCEPT
       !.packets = @ + 1,
       !.pkt_in_step = TRUE,
       !.last = [key |-> key, payload |-> payload,
                 before |-> [f \in Filters(g_input) |->
                               g_input.filters[f].accumulator]],
       !.owed = IF Matching(g_input, key) = {} THEN @
                ELSE LET r == g_input.routes[FirstMatch(g_input, key)]
                     IN [@ EXCEPT ![r.filter][BitAnd(key, r.dimension_mask)]
                                     = @ + payload]]
  /\ UNCHANGED <<kernel, step, evars, svars, cvars, bvars>>

\* The timer handler enters input_filter_step.
StepBegin ==
  /\ step.pc = "idle"
  /\ hist.steps < MaxSteps
  /\ g_input' = ZeroInput(g_input)
  /\ step' = IF g_input.n_filters = 0 THEN IdleStep
             ELSE [pc |-> "filter", f |-> 0, d |-> 0]
  /\ hist' = [hist EXCEPT
       !.prevFiltered = [f \in Filters(g_input) |-> g_input.filters[f].filtered],
       !.prevAccum = [f \in Filters(g_input) |-> g_input.filters[f].accumulator],
       !.pkt_in_step = FALSE,
       !.steps = IF g_input.n_filters = 0 THEN @ + 1 ELSE @]
  /\ UNCHANGED <<kernel, evars, svars, cvars, bvars>>

\* filtered[d] is updated from the accumulator cell as read now.
StepFilter ==
  /\ step.pc = "filter"
  /\ g_input' = FilterDim(g_input, step.f, step.d)
  /\ step' = [step EXCEPT !.pc = "zero"]
  /\ hist' = [hist EXCEPT !.owed[step.f][step.d] = 0]
  /\ UNCHANGED <<kernel, evars, svars, cvars, bvars>>

\* accumulator[d] = 0, then the loop control of input_buffer_step and of
\* input_filter_step.
StepZero ==
  /\ step.pc = "zero"
  /\ LET z == ZeroDim(g_input, step.f, step.d)
     IN IF step.d + 1 < g_input.n_dimensions
        THEN /\ g_input' = z
             /\ step' = [pc |-> "filter", f |-> step.f, d |-> step.d + 1]
             /\ hist' = hist
        ELSE /\ g_input' = AddFiltered(z, step.f)
             /\ IF step.f + 1 < g_input.n_filters
                THEN /\ step' = [pc |-> "filter", f |-> step.f + 1, d |-> 0]
                     /\ hist' = hist
                ELSE /\ step' = IdleStep
                     /\ hist' = [hist EXCEPT !.steps = @ + 1]
  /\ UNCHANGED <<kernel, evars, svars, cvars, bvars>>

NextInput ==
  \/ \E key \in PacketKeys, payload \in PacketPayloads : McplRx(key, payload)
  \/ StepBegin
  \/ StepFilter
  \/ StepZero

SpecInput == InitInput /\ [][NextInput]_vars

(* ------------------------- claims: input ------------------------------ *)

C2_Expected ==
  LET g == g_input
      key == hist'.last.key
  IN IF Matching(g, key) = {}
     THEN [f \in Filters(g) |-> g.filters[f].accumulator]
     ELSE LET r == g.routes[FirstMatch(g, key)]
              dim == BitAnd(key, r.dimension_mask)
          IN [f \in Filters(g) |-> [d \in Dims(g) |->
                IF f = r.filter /\ d = dim
                THEN g.filters[f].accumulator[d] + hist'.last.payload
                ELSE g.filters[f].accumulator[d]]]

C3_NoLostContribution ==
  step.pc = "idle" =>
    \A f \in Filters(g_input) : \A d \in Dims(g_input) :
      g_input.filters[f].accumulator[d] = hist.owed[f][d]

\* C31: at the end of every step input[d] is the sum over the filters of
\* filtered[d], all zero when there is no filter, also when packets were
\* handled inside the step; and nothing changes input between steps.
RECURSIVE SumFiltered(_, _, _)
SumFiltered(g, f, d) ==
  IF f >= g.n_filters THEN 0
  ELSE g.filters[f].filtered[d] + SumFiltered(g, f + 1, d)

C31_AtEnd ==
  (step.pc = "idle" /\ hist.steps > 0) =>
    \A d \in Dims(g_input) : g_input.input[d] = SumFiltered(g_input, 0, d)

C31_Between ==
  (step.pc = "idle" /\ step'.pc = "idle" /\ hist'.steps = hist.steps) =>
    g_input'.input = g_input.input

C31_InputIsSum == [][C31_Between]_vars /\ []C31_AtEnd

\* A step has ended, a packet was handled since it began, and both filters
\* hold a non-zero filtered value for one dimension.
C31_Witness ==
  /\ step.pc = "idle" /\ hist.steps > 0 /\ hist.pkt_in_step
  /\ g_input.n_filters = 2
  /\ \E d \in Dims(g_input) :
       /\ g_input.filters[0].filtered[d] # 0
       /\ g_input.filters[1].filtered[d] # 0

(* ====================================================================== *)
(* Ensemble kernel                                                        *)
(*                                                                        *)
(* Three generations of the timer handler are in the repository:          *)
(*   "batched"      ensemble_update with recording, LFSR and PES, sending *)
(*                  every dimension after the neuron loop;                *)
(*   "timer2"       ensemble_update without transmission, the dimensions  *)
(*                  being sent by outgoing_dimension_callback, which      *)
(*                  timer 2 runs at interrupt level;                      *)
(*   "interleaved"  timer_callback, sending one dimension every           *)
(*                  n_neurons / n_output_dimensions neurons.              *)
(* and two of the recorder: "frames" (two local buffers, frame counter)   *)
(* and "pointer" (one local buffer, moving SDRAM pointer).                *)
(* ====================================================================== *)
MaxTicks == 3
MaxCallbacks == 3

\* The all-ones word, in its two's-complement reading.
UINT32_MAX == -1

Neurons(e) == 0 .. (e.n_neurons - 1)
OutDims(s) == 0 .. (s.n_output_dimensions - 1)

\* Routing keys of the decoded dimensions, as data_get_keys copies them in.
gp_output_keys(d) == 64 + d

neuron_encoder(e, n, d) == e.encoders[n][d]
neuron_decoder(e, n, d) == e.decoders[n][d]
neuron_voltage(e, n) == kbits(e.status[n].voltage)
set_neuron_voltage(e, n, v) ==
  [e EXCEPT !.status[n].voltage = bitsk(v) % 268435456]
neuron_refractory(e, n) == e.status[n].refractory_time

\* refractory_time is a 4-bit field: the store keeps t_ref modulo 16.
set_neuron_refractory(e, n) ==
  [e EXCEPT !.status[n].refractory_time = e.t_ref % 16]

\* v_ref_voltage[n] = t_ref with t_ref = addr[4] << 28: the packed word of
\* the oldest generation, refractory nibble set and voltage bits cleared.
set_neuron_refractory_packed(e, n) ==
  [e EXCEPT !.status[n] = [refractory_time |-> e.t_ref % 16, voltage |-> 0]]

\* refractory_time-- on the 4-bit field (and -= 0x10000000 on the packed
\* word, whose carry out of bit 31 is lost).
decrement_neuron_refractory(e, n) ==
  [e EXCEPT !.status[n].refractory_time = (@ - 1) % 16]

\* i_membrane after the encoder loop.
RECURSIVE Encode(_, _, _, _)
Encode(e, inp, n, d) ==
  IF d >= Len(inp) THEN 0
  ELSE KMul(neuron_encoder(e, n, d), inp[d + 1]) + Encode(e, inp, n, d + 1)

\* The Euler step of one neuron: v_delta and the clamped v_voltage.
Lif(e, inp, n) ==
  LET i_membrane == e.i_bias[n] + Encode(e, inp, n, 0)
      v0 == neuron_voltage(e, n)
      v_delta == KMul(i_membrane - v0, e.dt_over_t_rc)
      v1 == v0 + v_delta
  IN [v_delta |-> v_delta, v_voltage |-> IF v1 < 0 THEN 0 ELSE v1]

\* g_input.input as the sequence the encoder loop walks.
InputSeq(g) == [i \in 1 .. g.n_dimensions |-> g.input[i - 1]]

\* lfsr = (lfsr >> 1) ^ (~lfsr & 0xB400); ~x & m is m minus the bits of m
\* that x has.
NextLfsr(x) == BitXor(x \div 2, 46080 - BitAnd(x, 46080))

\* The perturbation test: kbits(lfsr & 0x7fff) * v_delta < v_voltage - 1.0k
Perturb(x, l) == KMul(kbits(BitAnd(x, 32767)), l.v_delta) < l.v_voltage - ONE

\* output[d] += neuron_decoder(n, d) for every d
AddDecoders(out, e, n) ==
  [d \in DOMAIN out |-> out[d] + neuron_decoder(e, n, d)]

\* g_n_output_dimensions, the length of a row of the decoder array.
DecoderWidth(e) == Cardinality(DOMAIN e.decoders[0])

\* pes_neuron_spiked.  neuron_decoder_vector(n) points at element
\* n * g_n_output_dimensions of the one decoder array, so
\* decoder_vector[d + decoder_output_offset] is element
\* n * g_n_output_dimensions + d + decoder_output_offset of it, in whatever
\* row that element lies; an element past the last row is not part of the
\* array and the write to it changes no decoder.
RECURSIVE PesFrom(_, _, _, _, _)
PesFromUnscaled(e, g, pes, n, d) ==
  [e EXCEPT !.decoders[n] =
     [k \in DOMAIN @ |->
        IF k - pes.decoder_output_offset \in d .. (g.n_dimensions - 1)
        THEN @[k] + g.filters[pes.error_signal_filter_index].filtered[
                      k - pes.decoder_output_offset]
        ELSE @[k]]]
PesFrom(e, g, pes, n, d) ==
  IF d >= g.n_dimensions THEN e
  ELSE LET w == DecoderWidth(e)
           i == n * w + d + pes.decoder_output_offset
           delta == KMul(pes.learning_rate,
                         g.filters[pes.error_signal_filter_index].filtered[d])
       IN PesFrom(
            IF i \div w < e.n_neurons
            THEN [e EXCEPT !.decoders[i \div w][i % w] = @ + delta]
            ELSE e,
            g, pes, n, d + 1)

pes_neuron_spiked_unguarded(e, g, pes, n) == PesFrom(e, g, pes, n, 0)
pes_neuron_spiked(e, g, pes, n) ==
  IF pes.learning_rate > 0 THEN PesFrom(e, g, pes, n, 0) ELSE e

\* pes_update_neuron_activity of the filtered-activity variant: the trace of
\* neuron n decays and, on a spike, gains one_minus_activity_decay.  Its
\* call sites in ensemble_update are the ones kept there as comments.
pes_update_neuron_activity(pes, n, spiked) ==
  IF pes.learning_rate > 0
  THEN [pes EXCEPT !.filtered_activity[n] =
          KMul(@, pes.activity_decay)
          + (IF spiked THEN pes.one_minus_activity_decay ELSE 0)]
  ELSE pes

(* ------------------------------ recorder ------------------------------ *)
\* A 32-bit recording word is held as the set of its set bit positions.
ZeroFrame(len) == [i \in 0 .. (len - 1) |-> {}]

FrameLength(n_neurons) ==
  (n_neurons \div 32) + (IF n_neurons % 32 # 0 THEN 1 ELSE 0)

\* record_buffer_initialise of the "frames" recorder; for the "pointer"
\* recorder the initialiser is not in the sources: the local buffer is
\* taken zeroed and _sdram_current at the start of the region.
NewRecorder(kind, n_neurons, record) ==
  IF kind = "frames"
  THEN [kind |-> "frames",
        frame_length |-> FrameLength(n_neurons),
        current_frame |-> UINT32_MAX,
        which |-> 1,
        local |-> [b \in {1, 2} |-> ZeroFrame(FrameLength(n_neurons))]]
  ELSE [kind |-> kind,
        frame_length |-> FrameLength(n_neurons),
        record |-> record,
        buffer |-> ZeroFrame(FrameLength(n_neurons)),
        _sdram_current |-> [base |-> "region", off |-> 0]]

\* The local buffer record_spike and record_buffer_flush work on.
CurrentBuffer(r) == IF r.kind = "frames" THEN r.local[r.which] ELSE r.buffer

record_buffer_prepare(r) ==
  IF r.kind = "frames"
  THEN LET b == IF r.which = 1 THEN 2 ELSE 1
       IN [r EXCEPT !.which = b,
                    !.local[b] = ZeroFrame(r.frame_length),
                    !.current_frame = @ + 1]
  ELSE IF r.kind = "pointer" /\ r.record
       THEN [r EXCEPT !._sdram_current.off = @ + r.frame_length]
       ELSE r

\* buffer[n >> 5] |= 1 << (n & 0x1f)
record_spike(r, n) ==
  IF r.kind = "frames"
  THEN [r EXCEPT !.local[r.which][n \div 32] = @ \cup {n % 32}]
  ELSE IF r.kind = "pointer"
       THEN [r EXCEPT !.buffer[n \div 32] = @ \cup {n % 32}]
       ELSE r

\* Writing len words at word offset off of the region.
WriteWords(m, off, words, len) ==
  [o \in DOMAIN m \cup {off + i : i \in 0 .. (len - 1)} |->
     IF o >= off /\ o < off + len THEN words[o - off] ELSE m[o]]

\* record_buffer_flush, the recording region after it.  The "frames"
\* recorder copies to _sdram_buffer[current_frame * frame_length]; the
\* "pointer" recorder passes &buffer->_sdram_current as the destination, so
\* the region is not written.
FlushSdram(r, m) ==
  IF r.kind = "frames"
  THEN WriteWords(m, r.current_frame * r.frame_length, CurrentBuffer(r),
                  r.frame_length)
  ELSE m

\* record_buffer_flush, the recorder after it.  The "pointer" recorder's
\* copy lands on its own _sdram_current field, which then holds the first
\* word of the frame instead of an address in the region (the recorder is
\* run with one-word frames, so nothing beyond the field is overwritten).
FlushRecd(r) ==
  IF r.kind = "pointer" /\ r.record
  THEN [r EXCEPT !._sdram_current = [base |-> "frame word", off |-> 0]]
  ELSE r

(* --------------------- configurations that are run -------------------- *)
Bias(n, N) == IF n = 0 THEN 2 * ONE ELSE IF n = N - 1 THEN 40960 ELSE 0
Encoder(n) == IF n % 2 = 0 THEN ONE ELSE -ONE
Decoder(n, d) == 4096 * ((n % 3) + 1) + 256 * d

EnsembleConfigs ==
  [gen : {"batched"}, n_neurons : {1, 2}, n_output_dimensions : {1, 2},
   t_ref : {0, 2}, rec : {"frames", "pointer"}, record : {TRUE},
   learning_rate : {0, 16384}, simulation_ticks : {UINT32_MAX, 2},
   pes : {"spike"}, dt_over_t_rc : {24576},
   decoder_output_offset : {0}]
  \cup
  [gen : {"batched"}, n_neurons : {33}, n_output_dimensions : {1},
   t_ref : {1}, rec : {"frames"}, record : {TRUE},
   learning_rate : {0}, simulation_ticks : {UINT32_MAX},
   pes : {"spike"}, dt_over_t_rc : {24576},
   decoder_output_offset : {0}]
  \cup
  [gen : {"batched"}, n_neurons : {2}, n_output_dimensions : {1},
   t_ref : {1}, rec : {"pointer"}, record : {FALSE},
   learning_rate : {0}, simulation_ticks : {UINT32_MAX},
   pes : {"spike"}, dt_over_t_rc : {24576},
   decoder_output_offset : {0}]
  \cup
  [gen : {"timer2"}, n_neurons : {1, 2}, n_output_dimensions : {1, 2},
   t_ref : {0, 1}, rec : {"none"}, record : {FALSE},
   learning_rate : {0}, simulation_ticks : {UINT32_MAX},
   pes : {"spike"}, dt_over_t_rc : {24576},
   decoder_output_offset : {0}]
  \cup
  [gen : {"interleaved"}, n_neurons : {1, 2, 3, 4}, n_output_dimensions : {1, 2},
   t_ref : {0, 1}, rec : {"none"}, record : {FALSE},
   learning_rate : {0}, simulation_ticks : {UINT32_MAX},
   pes : {"spike"}, dt_over_t_rc : {24576},
   decoder_output_offset : {0}]
  \cup
  [gen : {"batched"}, n_neurons : {1, 2}, n_output_dimensions : {1},
   t_ref : {2}, rec : {"frames"}, record : {TRUE},
   learning_rate : {-16384}, simulation_ticks : {UINT32_MAX},
   pes : {"spike"}, dt_over_t_rc : {24576},
   decoder_output_offset : {0}]
  \cup
  [gen : {"batched"}, n_neurons : {1}, n_output_dimensions : {1},
   t_ref : {2}, rec : {"frames"}, record : {TRUE},
   learning_rate : {-16384, 0, 16384}, simulation_ticks : {UINT32_MAX},
   pes : {"activity"}, dt_over_t_rc : {24576},
   decoder_output_offset : {0}]
  \cup
  \* dt / t_rc = 0.5: the first Euler step of neuron 0 (bias 2.0) is 1.0
  [gen : {"batched"}, n_neurons : {1}, n_output_dimensions : {1},
   t_ref : {1}, rec : {"frames"}, record : {TRUE},
   learning_rate : {0}, simulation_ticks : {UINT32_MAX},
   pes : {"spike"}, dt_over_t_rc : {16384},
   decoder_output_offset : {0}]
  \cup
  \* PES applied at decoder column 1, with one or two output dimensions;
  \* the one tick of the run is the first, in which only neuron 0 spikes
  [gen : {"batched"}, n_neurons : {2}, n_output_dimensions : {1, 2},
   t_ref : {1}, rec : {"frames"}, record : {TRUE},
   learning_rate : {16384}, simulation_ticks : {1},
   pes : {"spike"}, dt_over_t_rc : {24576},
   decoder_output_offset : {1}]

EnsPayloads == {16384, 12288}

\* Words an out-of-bounds read can return.
Junk == {0, 12345}

IdleTick ==
  [pc |-> "idle", n |-> 0, d |-> 0, tmp |-> 0,
   neurons_per_packet |-> 0, n_counter |-> 0,
   n_current_output_dimension |-> 0, index |-> 0]

\* initialise_ensemble and the data_get_* loaders.
LoadEnsemble(c) ==
  [n_neurons |-> c.n_neurons,
   t_ref |-> c.t_ref,
   dt_over_t_rc |-> c.dt_over_t_rc,
   i_bias |-> [n \in 0 .. (c.n_neurons - 1) |-> Bias(n, c.n_neurons)],
   status |-> [n \in 0 .. (c.n_neurons - 1) |->
                 [refractory_time |-> 0, voltage |-> 0]],
   encoders |-> [n \in 0 .. (c.n_neurons - 1) |-> [d \in {0} |-> Encoder(n)]],
   decoders |-> [n \in 0 .. (c.n_neurons - 1) |->
                   [d \in 0 .. (c.n_output_dimensions - 1) |-> Decoder(n, d)]]]

InitEnsemble ==
  /\ kernel = "ensemble"
  /\ step = Unused /\ hist = Unused /\ vs = Unused
  /\ NoController /\ NoBridge
  /\ \E c \in EnsembleConfigs :
       /\ g_ensemble = LoadEnsemble(c)
       /\ g_input = LoadInput(1, << <<16384, 16384>> >>,
            IF c.gen = "interleaved" THEN <<>>
            ELSE << [key |-> 0, mask |-> 0, filter |-> 0,
                     dimension_mask |-> 15] >>)
       /\ g_pes = [variant |-> c.pes,
                   learning_rate |-> c.learning_rate,
                   activity_decay |-> 16384,
                   one_minus_activity_decay |-> 16384,
                   filtered_activity |-> [n \in 0 .. (c.n_neurons - 1) |-> 0],
                   error_signal_filter_index |-> 0,
                   decoder_output_offset |-> c.decoder_output_offset]
       /\ gp_output_values = [d \in 0 .. (c.n_output_dimensions - 1) |-> 0]
       /\ recd = NewRecorder(c.rec, c.n_neurons, c.record)
       /\ sim = [gen |-> c.gen, run |-> TRUE, ticks |-> 0,
                 simulation_ticks |-> c.simulation_ticks,
                 n_output_dimensions |-> c.n_output_dimensions]
  /\ lfsr = 1
  /\ sdram = <<>>
  /\ tick = IdleTick
  /\ net = <<>>
  /\ ehist = [packets |-> 0, callbacks |-> 0,
              spiked |-> {}, frames |-> <<>>, flushed |-> <<>>,
              nspikes |-> [n \in Neurons(g_ensemble) |-> 0],
              errs |-> [n \in Neurons(g_ensemble) |-> {}],
              emitted |-> [d \in DOMAIN gp_output_values |-> 0],
              decoded |-> [d \in DOMAIN gp_output_values |-> 0]]

\* incoming_spike_callback of the oldest generation: the dimension is the
\* bottom nibble of the key, there are no routes.
incoming_spike_callback(g, key, payload) ==
  [g EXCEPT !.filters[0].accumulator[BitAnd(key, 15)] = @ + kbits(payload)]

\* A packet between two ticks of the ensemble.
EnsMcplRx(payload) ==
  /\ tick.pc = "idle"
  /\ sim.run
  /\ ehist.packets < MaxPackets
  /\ g_input' = IF sim.gen = "interleaved"
                THEN incoming_spike_callback(g_input, 0, payload)
                ELSE incoming_dimension_value_callback(g_input, 0, payload)
  /\ ehist' = [ehist EXCEPT !.packets = @ + 1]
  /\ UNCHANGED <<kernel, svars, cvars, bvars>>
  /\ UNCHANGED <<step, hist, g_ensemble, g_pes, gp_output_values,
                 lfsr, recd, sdram, sim, tick, net>>

\* Entry of the timer handler up to the neuron loop: the simulation_ticks
\* test (spin1_exit stops the timer and returns, the handler goes on),
\* record_buffer_prepare ("batched" only), the input filter step, and the
\* locals of the interleaved transmission.
EnsBegin ==
  /\ tick.pc = "idle"
  /\ sim.run
  /\ sim.ticks < MaxTicks
  /\ LET ticks == sim.ticks + 1
         npp == g_ensemble.n_neurons \div sim.n_output_dimensions
     IN /\ sim' = [sim EXCEPT
               !.ticks = ticks,
               !.run = ~(sim.gen # "interleaved"
                         /\ sim.gen # "timer2"
                         /\ sim.simulation_ticks # UINT32_MAX
                         /\ ticks >= sim.simulation_ticks)]
        /\ tick' = [IdleTick EXCEPT
               !.pc = "neurons",
               !.index = tick.index,
               !.neurons_per_packet = npp,
               !.n_counter = npp]
  /\ recd' = IF sim.gen = "batched" THEN record_buffer_prepare(recd) ELSE recd
  /\ g_input' = input_filter_step(g_input)
  /\ net' = <<>>
  /\ ehist' = [ehist EXCEPT !.spiked = {}]
  /\ UNCHANGED <<kernel, svars, cvars, bvars>>
  /\ UNCHANGED <<step, hist, g_ensemble, g_pes, gp_output_values,
                 lfsr, sdram>>

\* Loop control after neuron n: the next neuron, or what follows the loop.
AfterNeuron(t) ==
  IF t.n + 1 < g_ensemble.n_neurons
  THEN [t EXCEPT !.pc = "neurons", !.n = t.n + 1]
  ELSE IF sim.gen = "batched"
       THEN [t EXCEPT !.pc = "emit", !.d = 0]
       ELSE [t EXCEPT !.pc = "idle"]

\* One iteration of the neuron loop of the "batched" ensemble_update.
NeuronBatched ==
  /\ sim.gen = "batched"
  /\ tick.pc = "neurons"
  /\ LET n == tick.n
         l == Lif(g_ensemble, InputSeq(g_input), n)
         stored == set_neuron_voltage(g_ensemble, n, l.v_voltage)
         fired == set_neuron_voltage(set_neuron_refractory(stored, n), n, 0)
         timed == IF Perturb(lfsr, l)
                  THEN decrement_neuron_refractory(fired, n) ELSE fired
     IN IF neuron_refractory(g_ensemble, n) # 0
        THEN /\ g_ensemble' = decrement_neuron_refractory(g_ensemble, n)
             /\ UNCHANGED <<g_pes, gp_output_values, lfsr, recd, ehist>>
        ELSE IF l.v_voltage > ONE
        THEN /\ g_ensemble' = IF g_pes.variant = "spike"
                              THEN pes_neuron_spiked(timed, g_input, g_pes, n)
                              ELSE timed
             /\ g_pes' = IF g_pes.variant = "activity"
                         THEN pes_update_neuron_activity(g_pes, n, TRUE)
                         ELSE g_pes
             /\ lfsr' = NextLfsr(lfsr)
             /\ gp_output_values' = AddDecoders(gp_output_values, g_ensemble, n)
             /\ recd' = record_spike(recd, n)
             /\ ehist' = [ehist EXCEPT
                  !.spiked = @ \cup {n},
                  !.nspikes[n] = @ + 1,
                  !.errs[n] = @ \cup {g_input.filters[
                                g_pes.error_signal_filter_index].filtered[0]},
                  !.decoded = [d \in DOMAIN @ |->
                                 @[d] + neuron_decoder(g_ensemble, n, d)]]
        ELSE /\ g_ensemble' = stored
             /\ g_pes' = IF g_pes.variant = "activity"
                         THEN pes_update_neuron_activity(g_pes, n, FALSE)
                         ELSE g_pes
             /\ UNCHANGED <<gp_output_values, lfsr, recd, ehist>>
  /\ tick' = AfterNeuron(tick)
  /\ UNCHANGED <<kernel, svars, cvars, bvars>>
  /\ UNCHANGED <<step, hist, g_input, sdram, sim, net>>

\* The transmission loop after the neuron loop, one dimension:
\* spin1_send_mc_packet(keys[d], bitsk(values[d])); values[d] = 0;
\* spin1_delay_us(1).
SendNoZero(out, d) == out
SendAndZero(out, d) == [out EXCEPT ![d] = 0]

EmitBatched ==
  /\ sim.gen = "batched"
  /\ tick.pc = "emit"
  /\ tick.d < sim.n_output_dimensions
  /\ net' = Append(net, [dim |-> tick.d, key |-> gp_output_keys(tick.d),
                         payload |-> bitsk(gp_output_values[tick.d])])
  /\ gp_output_values' = SendAndZero(gp_output_values, tick.d)
  /\ ehist' = [ehist EXCEPT !.emitted[tick.d] = @ + gp_output_values[tick.d]]
  /\ tick' = [tick EXCEPT !.d = @ + 1]
  /\ UNCHANGED <<kernel, svars, cvars, bvars>>
  /\ UNCHANGED <<step, hist, g_input, g_ensemble, g_pes, lfsr, recd,
                 sdram, sim>>

\* record_buffer_flush, the last statement of the handler.
FlushBatched ==
  /\ sim.gen = "batched"
  /\ tick.pc = "emit"
  /\ tick.d >= sim.n_output_dimensions
  /\ sdram' = FlushSdram(recd, sdram)
  /\ recd' = FlushRecd(recd)
  /\ ehist' = [ehist EXCEPT !.frames = Append(@, ehist.spiked),
                            !.flushed = Append(@, CurrentBuffer(recd))]
  /\ tick' = [tick EXCEPT !.pc = "idle"]
  /\ UNCHANGED <<kernel, svars, cvars, bvars>>
  /\ UNCHANGED <<step, hist, g_input, g_ensemble, g_pes,
                 gp_output_values, lfsr, sim, net>>

\* One iteration of the neuron loop of the "timer2" ensemble_update, up to
\* the decoder loop of a spike.
NeuronTimer2 ==
  /\ sim.gen = "timer2"
  /\ tick.pc = "neurons"
  /\ LET n == tick.n
         l == Lif(g_ensemble, InputSeq(g_input), n)
         stored == set_neuron_voltage(g_ensemble, n, l.v_voltage)
     IN IF neuron_refractory(g_ensemble, n) # 0
        THEN /\ g_ensemble' = decrement_neuron_refractory(g_ensemble, n)
             /\ tick' = AfterNeuron(tick)
             /\ UNCHANGED ehist
        ELSE IF l.v_voltage > ONE
        THEN /\ g_ensemble' = set_neuron_refractory(stored, n)
             /\ tick' = [tick EXCEPT !.pc = "acc_read", !.d = 0]
             /\ ehist' = [ehist EXCEPT !.spiked = @ \cup {n}]
        ELSE /\ g_ensemble' = stored
             /\ tick' = AfterNeuron(tick)
             /\ UNCHANGED ehist
  /\ UNCHANGED <<kernel, svars, cvars, bvars>>
  /\ UNCHANGED <<step, hist, g_input, g_pes, gp_output_values, lfsr,
                 recd, sdram, sim, net>>

\* g_ensemble.output[d] += neuron_decoder(n, d) is a load, an add and a
\* store; timer 2 can interrupt between the load and the store.
AccRead ==
  /\ sim.gen = "timer2"
  /\ tick.pc = "acc_read"
  /\ tick' = [tick EXCEPT !.pc = "acc_write", !.tmp = gp_output_values[tick.d]]
  /\ UNCHANGED <<kernel, svars, cvars, bvars>>
  /\ UNCHANGED <<step, hist, g_input, g_ensemble, g_pes,
                 gp_output_values, lfsr, recd, sdram, sim, net, ehist>>

AccWrite ==
  /\ sim.gen = "timer2"
  /\ tick.pc = "acc_write"
  /\ gp_output_values' =
       [gp_output_values EXCEPT
          ![tick.d] = tick.tmp + neuron_decoder(g_ensemble, tick.n, tick.d)]
  /\ ehist' = [ehist EXCEPT
       !.decoded[tick.d] = @ + neuron_decoder(g_ensemble, tick.n, tick.d)]
  /\ tick' = IF tick.d + 1 < sim.n_output_dimensions
             THEN [tick EXCEPT !.pc = "acc_read", !.d = @ + 1]
             ELSE AfterNeuron(tick)
  /\ UNCHANGED <<kernel, svars, cvars, bvars>>
  /\ UNCHANGED <<step, hist, g_input, g_ensemble, g_pes, lfsr, recd,
                 sdram, sim, net>>

\* outgoing_dimension_callback, run by timer 2 at interrupt level: it can
\* come at any point of the timer handler and between ticks.
Timer2Out ==
  /\ sim.gen = "timer2"
  /\ ehist.callbacks < MaxCallbacks
  /\ net' = Append(net, [dim |-> tick.index,
                         key |-> gp_output_keys(tick.index),
                         payload |-> bitsk(gp_output_values[tick.index])])
  /\ gp_output_values' = SendAndZero(gp_output_values, tick.index)
  /\ tick' = [tick EXCEPT
       !.index = IF @ + 1 >= sim.n_output_dimensions THEN 0 ELSE @ + 1]
  /\ ehist' = [ehist EXCEPT
       !.callbacks = @ + 1,
       !.emitted[tick.index] = @ + gp_output_values[tick.index]]
  /\ UNCHANGED <<kernel, svars, cvars, bvars>>
  /\ UNCHANGED <<step, hist, g_input, g_ensemble, g_pes, lfsr, recd,
                 sdram, sim>>

\* One iteration of the neuron loop of the "interleaved" timer_callback.
\* n_counter is unsigned: below zero stands for the wrapped value.  When
\* n_current_output_dimension has run past the arrays the key and the
\* payload read are whatever lies behind them.
NeuronInterleaved ==
  /\ sim.gen = "interleaved"
  /\ tick.pc = "neurons"
  /\ \E junk \in Junk :
     LET n == tick.n
         idx == tick.n_current_output_dimension
         send == tick.n_counter - 1 = 0
         inb == idx < sim.n_output_dimensions
         out1 == IF send /\ inb THEN SendAndZero(gp_output_values, idx)
                 ELSE gp_output_values
         t1 == IF send
               THEN [tick EXCEPT !.n_counter = tick.neurons_per_packet,
                                 !.n_current_output_dimension = idx + 1]
               ELSE [tick EXCEPT !.n_counter = @ - 1]
         l == Lif(g_ensemble, InputSeq(g_input), n)
         stored == set_neuron_voltage(g_ensemble, n, l.v_voltage)
         spike == neuron_refractory(g_ensemble, n) = 0 /\ l.v_voltage > ONE
     IN /\ net' = IF send
                  THEN Append(net,
                         [dim |-> idx,
                          key |-> IF inb THEN gp_output_keys(idx) ELSE junk,
                          payload |-> IF inb THEN bitsk(gp_output_values[idx])
                                      ELSE junk])
                  ELSE net
        /\ g_ensemble' =
             IF neuron_refractory(g_ensemble, n) # 0
             THEN decrement_neuron_refractory(g_ensemble, n)
             ELSE IF spike THEN set_neuron_refractory_packed(stored, n)
             ELSE stored
        /\ gp_output_values' =
             IF spike THEN AddDecoders(out1, g_ensemble, n) ELSE out1
        /\ ehist' = [ehist EXCEPT
             !.spiked = IF spike THEN @ \cup {n} ELSE @,
             !.emitted = [d \in DOMAIN @ |->
                IF send /\ d = idx THEN @[d] + gp_output_values[d] ELSE @[d]],
             !.decoded = [d \in DOMAIN @ |->
                IF spike THEN @[d] + neuron_decoder(g_ensemble, n, d)
                ELSE @[d]]]
        /\ tick' = AfterNeuron(t1)
  /\ UNCHANGED <<kernel, svars, cvars, bvars>>
  /\ UNCHANGED <<step, hist, g_input, g_pes, lfsr, recd, sdram, sim>>

NextEnsemble ==
  \/ \E payload \in EnsPayloads : EnsMcplRx(payload)
  \/ EnsBegin
  \/ NeuronBatched
  \/ EmitBatched
  \/ FlushBatched
  \/ NeuronTimer2
  \/ AccRead
  \/ AccWrite
  \/ Timer2Out
  \/ NeuronInterleaved

SpecEnsemble == InitEnsemble /\ [][NextEnsemble]_vars

(* ----------------------- claims on the ensemble ------------------------ *)
\* The tick is over and at least one tick has run.
TickDone == tick.pc = "idle" /\ sim.ticks > 0

\* Recording is in use: the "frames" recorder always records, the "pointer"
\* recorder when its record flag is set.
Recording == recd.kind = "frames" \/ (recd.kind = "pointer" /\ recd.record)

\* C4: at every tick boundary every neuron has
\* 0 <= refractory_time <= t_ref, and refractory_time > 0 implies
\* voltage = 0, for every configured t_ref (0 included) and whether or not
\* the sub-tick correction fired.
C4_RefractoryRange ==
  (tick.pc = "idle" /\ sim.gen \in {"batched", "timer2"}) =>
    \A n \in Neurons(g_ensemble) :
      /\ 0 <= neuron_refractory(g_ensemble, n)
      /\ neuron_refractory(g_ensemble, n) <= g_ensemble.t_ref
      /\ neuron_refractory(g_ensemble, n) > 0 => neuron_voltage(g_ensemble, n) = 0

\* C5: at every point of every run and for every output dimension d, the
\* payloads already sent on keys[d] plus the current output[d] equal the
\* sum of the decoders (as they were at the spike) of all spikes so far.
C5_Conservation ==
  \A d \in OutDims(sim) :
    ehist.emitted[d] + gp_output_values[d] = ehist.decoded[d]

C7_InterleavedEmission ==
  (sim.gen = "interleaved" /\ TickDone) =>
    /\ Len(net) = sim.n_output_dimensions
    /\ \A i \in 1 .. Len(net) :
         net[i].dim = i - 1 /\ net[i].dim < sim.n_output_dimensions

\* C8: in the frame flushed for tick t, bit n mod 32 of word n / 32 is set
\* if and only if neuron n spiked in tick t.
C8_FrameBits ==
  (sim.gen = "batched" /\ Recording) =>
    \A t \in 1 .. Len(ehist.flushed) : \A n \in Neurons(g_ensemble) :
      (n % 32) \in ehist.flushed[t][n \div 32] <=> n \in ehist.frames[t]

\* C9: with recording in use, after k finished ticks the region holds
\* exactly k frames of frame_length words, the frame of tick t (from 0) at
\* word offset t * frame_length.
C9_RegionFrames ==
  (sim.gen = "batched" /\ Recording /\ tick.pc = "idle") =>
    LET k == Len(ehist.flushed)
        fl == recd.frame_length
    IN /\ fl = FrameLength(g_ensemble.n_neurons)
       /\ DOMAIN sdram = 0 .. (k * fl - 1)
       /\ \A t \in 0 .. (k - 1) : \A i \in 0 .. (fl - 1) :
            sdram[t * fl + i] = ehist.flushed[t + 1][i]

\* C22: on-spike PES with learning_rate > 0: a step changes
\* decoders[n][d + offset] exactly when neuron n spikes in it, and then by
\* learning_rate * error_filter.filtered[d] for each d of the error filter,
\* every other decoder entry staying as it is; so when every spike of
\* neuron n saw the same error e, after K spikes the entry has changed by
\* K * (learning_rate * e).  decoders[n][d + offset] names an entry when
\* d + offset is a column of the row, which is the case stated here.
C22_PerSpike ==
  (kernel = "ensemble" /\ g_pes.variant = "spike"
   /\ g_pes.learning_rate > 0
   /\ g_pes.decoder_output_offset + g_input.n_dimensions
        <= sim.n_output_dimensions) =>
    \A n \in Neurons(g_ensemble) : \A d \in OutDims(sim) :
      g_ensemble'.decoders[n][d] =
        g_ensemble.decoders[n][d]
        + (IF ehist'.nspikes[n] = ehist.nspikes[n] + 1
              /\ (d - g_pes.decoder_output_offset) \in Dims(g_input)
           THEN KMul(g_pes.learning_rate,
                     g_input.filters[g_pes.error_signal_filter_index]
                       .filtered[d - g_pes.decoder_output_offset])
           ELSE 0)

C22_KSpikes ==
  (g_pes.variant = "spike" /\ g_pes.learning_rate > 0
   /\ g_pes.decoder_output_offset + g_input.n_dimensions
        <= sim.n_output_dimensions) =>
    \A n \in Neurons(g_ensemble) :
      Cardinality(ehist.errs[n]) = 1 =>
        LET e == CHOOSE x \in ehist.errs[n] : TRUE
            d == g_pes.decoder_output_offset
        IN g_ensemble.decoders[n][d] =
             Decoder(n, d) + ehist.nspikes[n] * KMul(g_pes.learning_rate, e)

C22_PesOnSpike == [][C22_PerSpike]_vars /\ []C22_KSpikes

\* A neuron that has spiked twice under learning, both times with the same
\* non-zero error.
C22_Witness ==
  /\ g_pes.variant = "spike" /\ g_pes.learning_rate > 0
  /\ \E n \in Neurons(g_ensemble) :
       /\ ehist.nspikes[n] >= 2
       /\ Cardinality(ehist.errs[n]) = 1
       /\ 0 \notin ehist.errs[n]

\* C23: with learning_rate <= 0 every decoder value is the one loaded at
\* initialisation, after any sequence of ticks and spikes, in the on-spike
\* variant and in the filtered-activity variant.
C23_NoLearning ==
  g_pes.learning_rate <= 0 =>
    \A n \in Neurons(g_ensemble) : \A d \in OutDims(sim) :
      g_ensemble.decoders[n][d] = Decoder(n, d)

\* A spike with a non-zero error signal under a negative learning rate.
C23_Witness ==
  /\ g_pes.learning_rate < 0
  /\ \E n \in Neurons(g_ensemble) :
       ehist.nspikes[n] >= 1 /\ ehist.errs[n] # {0}

\* C32: between ticks of ensemble_update (the generation that sends after
\* the neuron loop) the stored membrane voltage of every neuron is at least
\* 0 and below 1.0: 0 <= bits(v) < 2^15.
C32_VoltageRange ==
  (sim.gen = "batched" /\ tick.pc = "idle") =>
    \A n \in Neurons(g_ensemble) :
      /\ 0 <= g_ensemble.status[n].voltage
      /\ g_ensemble.status[n].voltage < ONE

\* C40: the PES update made when neuron n spikes writes only row n of the
\* decoders, at the columns offset .. offset + D_err - 1, each of them
\* below n_output_dims; the rows of the other neurons and the other columns
\* of row n stay as they were.
C40_Frame ==
  (kernel = "ensemble" /\ g_pes.variant = "spike"
   /\ g_pes.learning_rate > 0) =>
    \A n \in Neurons(g_ensemble) :
      ehist'.nspikes[n] = ehist.nspikes[n] + 1 =>
        /\ g_pes.decoder_output_offset + g_input.n_dimensions
             <= sim.n_output_dimensions
        /\ \A m \in Neurons(g_ensemble) : \A d \in OutDims(sim) :
             g_ensemble'.decoders[m][d] # g_ensemble.decoders[m][d] =>
               /\ m = n
               /\ d - g_pes.decoder_output_offset \in Dims(g_input)

C40_PesFrame == [][C40_Frame]_vars

(* ---------------------- the spike-timing LFSR -------------------------- *)
\* The statement lfsr = ((lfsr >> 1) ^ (~lfsr & 0xB400)) iterated on its
\* own from the initial value of the global.
MaxLfsrUpdates == 32767

\* The period the 15 live bits would give.
LfsrPeriod == 2^15 - 1

InitLfsr ==
  /\ kernel = "lfsr"
  /\ lfsr = 1
  /\ ehist = [updates |-> 0, seen |-> {1}]
  /\ g_input = Unused /\ step = Unused /\ hist = Unused
  /\ g_ensemble = Unused /\ g_pes = Unused /\ gp_output_values = Unused
  /\ recd = Unused /\ sdram = Unused /\ sim = Unused
  /\ tick = Unused /\ net = Unused /\ vs = Unused
  /\ NoController /\ NoBridge

\* One execution of the statement; seen is the set of the values taken
\* before it.
LfsrUpdate ==
  /\ kernel = "lfsr"
  /\ ehist.updates < MaxLfsrUpdates
  /\ lfsr' = NextLfsr(lfsr)
  /\ ehist' = [updates |-> ehist.updates + 1, seen |-> ehist.seen \cup {lfsr}]
  /\ UNCHANGED <<kernel, ivars, svars, cvars, bvars>>
  /\ UNCHANGED <<g_ensemble, g_pes, gp_output_values, recd, sdram, sim, tick,
                 net>>

NextLfsrStep == LfsrUpdate

SpecLfsr == InitLfsr /\ [][NextLfsrStep]_vars

\* C33: started at 1, the LFSR never takes the value 0 and first returns
\* to 1 after exactly 2^15 - 1 updates: it is not 1 after fewer updates
\* and is 1 after 2^15 - 1.  The update being a function of the value
\* alone, a value taken twice before the return would repeat for ever
\* without the start value, so until the return every value is new.
C33_LfsrPeriod ==
  /\ lfsr # 0
  /\ (ehist.updates > 0 /\ ehist.updates < LfsrPeriod) =>
       (lfsr # 1 /\ lfsr \notin ehist.seen)
  /\ ehist.updates = LfsrPeriod => lfsr = 1

(* ====================================================================== *)
(* Value source kernel                                                    *)
(* ====================================================================== *)
MaxSourceTicks == 10

\* Transfers that may be outstanding when a tick begins.
MaxDmaQueued == 1

\* The sample at word i of the blocks region.
Source(i) == 100 + i

\* Content of a slot cell that nothing has been copied into.
Uninit == -1

SourceConfigs ==
  {c \in [n_dims : {1, 2}, n_blocks : {0, 1, 2, 3}, block_length : {1, 2, 3},
          partial_block : {0, 1, 2}, flags : {0, 1},
          simulation_ticks : {UINT32_MAX, 4}] :
     /\ c.partial_block < c.block_length
     /\ c.n_blocks + (IF c.partial_block > 0 THEN 1 ELSE 0) >= 1}

total_frames(pars) == pars.n_blocks * pars.block_length + pars.partial_block
vs_keys(d) == 32 + d
SourceDims(v) == 0 .. (v.pars.n_dims - 1)

\* A slot as initialise_slots leaves it: room for one block, nothing in it.
EmptySlot(pars) ==
  [data |-> [i \in 0 .. (pars.block_length * pars.n_dims - 1) |-> Uninit],
   current_pos |-> 0, length |-> 0]

\* Copy of len frames, starting at frame `from` of the blocks region, to
\* the start of a slot's data: spin1_memcpy in c_main, and what the DMA
\* controller does when it carries out a transfer spin1_dma_transfer queued.
CopyIn(pars, data, from, len) ==
  [i \in DOMAIN data |->
     IF i < len * pars.n_dims THEN Source(from * pars.n_dims + i) ELSE data[i]]

Other(s) == IF s = "a" THEN "b" ELSE "a"

\* slots_progress: current and next change roles, the slot played out
\* starts again from position 0.
slots_progress(v) ==
  [v EXCEPT !.current = Other(v.current),
            !.slots[v.current].current_pos = 0]

\* Value of exit_code while the kernel runs.
NoExit == -1

\* spin1_exit(0): the run ends with code 0; the handler that called it
\* returns normally.
spin1_exit(v, code) == [v EXCEPT !.run = FALSE, !.exit_code = code]

\* c_main of the value source.
LoadSource(c) ==
  LET pars == [n_dims |-> c.n_dims, n_blocks |-> c.n_blocks,
               block_length |-> c.block_length,
               partial_block |-> c.partial_block, flags |-> c.flags]
      nb == pars.n_blocks + (IF pars.partial_block > 0 THEN 1 ELSE 0)
      first == IF nb > 1 THEN pars.block_length ELSE pars.partial_block
  IN [pars |-> pars,
      n_blocks |-> nb,
      current_block |-> 0,
      current |-> "a",
      slots |-> [s \in {"a", "b"} |->
                   IF s = "a"
                   THEN [data |-> CopyIn(pars, EmptySlot(pars).data, 0, first),
                         current_pos |-> 0, length |-> first]
                   ELSE EmptySlot(pars)],
      run |-> TRUE, exit_code |-> NoExit, ticks |-> 0,
      simulation_ticks |-> c.simulation_ticks,
      dma |-> <<>>, raced |-> FALSE]

InitSource ==
  /\ kernel = "source"
  /\ \E c \in SourceConfigs : vs = LoadSource(c)
  /\ net = <<>>
  /\ g_input = Unused /\ step = Unused /\ hist = Unused
  /\ g_ensemble = Unused /\ g_pes = Unused /\ gp_output_values = Unused
  /\ lfsr = Unused /\ recd = Unused /\ sdram = Unused /\ sim = Unused
  /\ tick = Unused /\ ehist = Unused
  /\ NoController /\ NoBridge

\* slots.current->data[i]: a cell nothing was copied into, or one behind
\* the block, holds whatever the memory holds.
ReadSlot(slot, i, junk) ==
  IF i \in DOMAIN slot.data /\ slot.data[i] # Uninit THEN slot.data[i]
  ELSE junk

\* spin1_dma_transfer(0, s_addr, slot->data, DMA_READ, len frames): the
\* request is queued and the call returns; nothing in the kernel waits for
\* the transfer or is told of its end.
spin1_dma_transfer(v, slot, from, len) ==
  [v EXCEPT !.dma = Append(@, [slot |-> slot, from |-> from, len |-> len])]

\* "Copy in the next block", done when current_pos is 0: the transfer is
\* queued and next->length is set.
Prefetch(v) ==
  LET nxt == Other(v.current)
      p == v.pars
      from == (v.current_block + 1) * p.block_length
  IN IF v.slots[v.current].current_pos # 0 \/ v.n_blocks <= 1 THEN v
     ELSE IF v.current_block = p.n_blocks - 1
     THEN [spin1_dma_transfer(v, nxt, from, p.partial_block) EXCEPT
             !.slots[nxt].length = p.partial_block]
     ELSE IF v.current_block = p.n_blocks
     THEN IF p.flags % 2 = 1
          THEN [spin1_dma_transfer(v, nxt, 0, p.block_length) EXCEPT
                  !.slots[nxt].length = p.block_length]
          ELSE v
     ELSE [spin1_dma_transfer(v, nxt, from, p.block_length) EXCEPT
             !.slots[nxt].length = p.block_length]

\* "Switch blocks if necessary".
Advance(v) ==
  LET w == [v EXCEPT !.slots[v.current].current_pos = @ + 1]
      cur == w.slots[w.current]
      periodic == w.pars.flags % 2 = 1
  IN IF cur.current_pos # cur.length THEN w
     ELSE IF w.n_blocks = 1
     THEN IF periodic THEN [w EXCEPT !.slots[w.current].current_pos = 0]
          ELSE spin1_exit(w, 0)
     ELSE IF w.current_block = w.n_blocks - 1 /\ ~periodic
     THEN spin1_exit(w, 0)
     ELSE [slots_progress(w) EXCEPT
             !.current_block = IF @ + 1 = w.n_blocks THEN 0 ELSE @ + 1]

\* Whether a queued transfer into slot s has not been carried out yet.
Outstanding(v, s) == \E i \in 1 .. Len(v.dma) : v.dma[i].slot = s

\* The DMA controller carries out the oldest queued transfer.
DmaDone ==
  /\ kernel = "source"
  /\ vs.dma # <<>>
  /\ LET t == Head(vs.dma)
     IN vs' = [vs EXCEPT
                 !.slots[t.slot].data = CopyIn(vs.pars, @, t.from, t.len),
                 !.dma = Tail(@)]
  /\ UNCHANGED <<kernel, g_input, step, hist, g_ensemble, g_pes,
                 gp_output_values, lfsr, recd, sdram, sim, tick, net, ehist,
                 cvars, bvars>>

\* valsource_tick.  raced records that a frame was read from a slot while
\* a transfer into it was outstanding; the cells read then hold what they
\* held before the transfer.
valsource_tick ==
  /\ kernel = "source"
  /\ vs.run
  /\ vs.ticks < MaxSourceTicks
  /\ Len(vs.dma) <= MaxDmaQueued
  /\ \E junk \in Junk :
       LET cur == vs.slots[vs.current]
           ticks == vs.ticks + 1
           stop == vs.simulation_ticks # UINT32_MAX
                   /\ ticks >= vs.simulation_ticks
           v0 == [vs EXCEPT !.ticks = ticks,
                            !.raced = @ \/ Outstanding(vs, vs.current)]
           v1 == IF stop THEN spin1_exit(v0, 0) ELSE v0
       IN /\ net' = [i \in 1 .. vs.pars.n_dims |->
                       [dim |-> i - 1, key |-> vs_keys(i - 1),
                        payload |-> ReadSlot(cur,
                          cur.current_pos * vs.pars.n_dims + (i - 1), junk)]]
          /\ vs' = Advance(Prefetch(v1))
  /\ UNCHANGED <<kernel, g_input, step, hist, g_ensemble, g_pes,
                 gp_output_values, lfsr, recd, sdram, sim, tick, ehist,
                 cvars, bvars>>

NextSource ==
  \/ valsource_tick
  \/ DmaDone

SpecSource == InitSource /\ [][NextSource]_vars

\* C10 to C12 are stated for the runs in which every transfer was carried
\* out before a frame was read from its slot.
\*
\* C10: a periodic value source with more than one block sends, at tick t
\* (from 0) and for every dimension d, source[(t mod total_frames) * n_dims
\* + d] on keys[d], for every number of full blocks and every partial
\* block length from 0 to block_length - 1.
C10_PeriodicPlayback ==
  (vs.pars.flags % 2 = 1 /\ vs.n_blocks > 1 /\ vs.ticks > 0
   /\ ~vs.raced) =>
    /\ Len(net) = vs.pars.n_dims
    /\ \A d \in SourceDims(vs) :
         /\ net[d + 1].key = vs_keys(d)
         /\ net[d + 1].payload =
              Source(((vs.ticks - 1) % total_frames(vs.pars)) * vs.pars.n_dims + d)

\* C11: an aperiodic value source emits exactly total_frames frames, frame
\* t carrying source[t * n_dims + d] on keys[d]; it emits nothing at any
\* tick t >= total_frames and ends with exit code 0 right after the last
\* frame.
C11_AperiodicPlayback ==
  (vs.pars.flags % 2 = 0 /\ vs.simulation_ticks = UINT32_MAX
   /\ ~vs.raced) =>
    /\ vs.ticks <= total_frames(vs.pars)
    /\ vs.ticks > 0 =>
         /\ Len(net) = vs.pars.n_dims
         /\ \A d \in SourceDims(vs) :
              /\ net[d + 1].key = vs_keys(d)
              /\ net[d + 1].payload = Source((vs.ticks - 1) * vs.pars.n_dims + d)
    /\ vs.ticks < total_frames(vs.pars) => vs.run
    /\ vs.ticks = total_frames(vs.pars) => (~vs.run /\ vs.exit_code = 0)

\* C12: a periodic value source whose series is one block holds that block
\* with its true frame count, never copies into the other slot, and emits
\* the block's frames in order with period total_frames.
C12_SingleBlockPeriodic ==
  (vs.pars.flags % 2 = 1 /\ vs.n_blocks = 1 /\ ~vs.raced) =>
    /\ vs.current = "a"
    /\ vs.slots["a"].length = total_frames(vs.pars)
    /\ vs.slots["a"].current_pos < vs.slots["a"].length
    /\ vs.slots["b"] = EmptySlot(vs.pars)
    /\ vs.ticks > 0 =>
         \A d \in SourceDims(vs) :
           /\ net[d + 1].key = vs_keys(d)
           /\ net[d + 1].payload =
                Source(((vs.ticks - 1) % total_frames(vs.pars)) * vs.pars.n_dims + d)

\* The block after block b in playing order, and the frames block b holds:
\* the partial block, when there is one, is the block at index
\* pars.n_blocks.
FollowingBlock(v, b) == IF b + 1 >= v.n_blocks THEN 0 ELSE b + 1
FrameCount(p, b) == IF b < p.n_blocks THEN p.block_length ELSE p.partial_block

\* C34: a prefetch issued by a tick reads the block that follows
\* current_block (block 0 after the last one) into the next slot and sets
\* next.length to the frame count of that block: the block read exists,
\* and the length set is not 0.
C34_Step ==
  (kernel = "source" /\ vs'.ticks = vs.ticks + 1
   /\ Len(vs'.dma) = Len(vs.dma) + 1) =>
    LET t == vs'.dma[Len(vs'.dma)]
        nb == FollowingBlock(vs, vs.current_block)
    IN /\ t.slot = Other(vs.current)
       /\ t.from = nb * vs.pars.block_length
       /\ nb < vs.n_blocks
       /\ t.len = FrameCount(vs.pars, nb)
       /\ t.len # 0
       /\ vs'.slots[t.slot].length = t.len

C34_Prefetch == [][C34_Step]_vars

\* C38: no frame is read from a slot while a transfer into that slot is
\* outstanding: every prefetch has been carried out when the block it
\* fetched is emitted.
C38_NoReadDuringDma == kernel = "source" => ~vs.raced

\* C35: whenever a tick of the value source can begin, current_pos is
\* below the length of the current slot and current_block is below the
\* total number of blocks, so the frame read for emission lies inside the
\* block the current slot holds.
C35_InsideBlock ==
  (kernel = "source" /\ vs.run) =>
    /\ vs.slots[vs.current].current_pos < vs.slots[vs.current].length
    /\ vs.current_block < vs.n_blocks

(* ====================================================================== *)
(* Simulation controller                                                  *)
(* ====================================================================== *)
MaxCtlTicks == 5
MaxPongs == 3
MaxCmdTicks == 2
MaxCmdPongs == 1
MaxCmds == 2

\* The controller is run alone ("controller") or together with the host
\* commands ("command"), the latter over a shorter run.
Controlling == kernel \in {"controller", "command"}
CtlTickBound == IF kernel = "controller" THEN MaxCtlTicks ELSE MaxCmdTicks
CtlPongBound == IF kernel = "controller" THEN MaxPongs ELSE MaxCmdPongs

\* 32-bit words are held by their two's-complement reading, and the
\* arithmetic on them is done on 16-bit halves so that it wraps.
Hi16(w) == w \div 65536
Lo16(w) == w % 65536
Wrap16(x) == ((x + 32768) % 65536) - 32768
Word(h, l) == Wrap16(h) * 65536 + l

Add32(a, b) ==
  LET l == Lo16(a) + Lo16(b)
      c == IF l >= 65536 THEN 1 ELSE 0
  IN Word(Hi16(a) + Hi16(b) + c, l - c * 65536)

Sub32(a, b) ==
  LET l == Lo16(a) - Lo16(b)
      c == IF l < 0 THEN 1 ELSE 0
  IN Word(Hi16(a) - Hi16(b) - c, l + c * 65536)

\* Unsigned division of a word by 2.
Half32(w) ==
  IF w >= 0 THEN w \div 2 ELSE ((w \div 2) + 1073741824) + 1073741824

\* keys[n]: the three routing keys of node n.
NodeKeys(n) ==
  [ping |-> 16 + 4 * n, pong |-> 17 + 4 * n, correction |-> 18 + 4 * n]

CtlNodes(c) == 0 .. (c.num_nodes - 1)

\* The reference timer at start, the time a handler is entered after the
\* previous one, and the remote clock values a pong can carry.
StartTimes == {-7, 2147483641}
TickPeriod == 6
\* A pong: the remote clock value it carries and the time it is handled
\* after the previous handler was entered.
Pongs ==
  {[remote_time |-> 0, dt |-> 1], [remote_time |-> -3, dt |-> 4]}
PongKeys == {NodeKeys(0).pong, NodeKeys(1).pong}
NodeCounts == {1, 2, 3}

\* The statics of the controller before the first timer tick.
LoadController(k, t0) ==
  [num_nodes |-> k,
   cur_node |-> UINT32_MAX,
   cur_node_keys |-> [ping |-> 0, pong |-> 0, correction |-> 0],
   ping_send_time |-> 0,
   pong_received |-> FALSE,
   last_correction |-> 0,
   min_correction |-> 0,
   max_correction |-> 0,
   correction_range |-> UINT32_MAX,
   pc |-> "idle",
   now |-> t0]

InitController ==
  /\ kernel = "controller"
  /\ \E k \in NodeCounts, t0 \in StartTimes : ctl = LoadController(k, t0)
  /\ chist = [ticks |-> 0, pongs |-> 0, missed |-> 0, rounds |-> 0,
              answered |-> FALSE,
              open |-> {}, last_of |-> 0, stamp_of |-> 0,
              pings |-> <<>>, round |-> <<>>, sent |-> <<>>,
              last_ping |-> [n \in CtlNodes(ctl) |-> 0],
              last_rx |-> [key |-> 0, remote_time |-> 0]]
  /\ net = <<>>
  /\ g_input = Unused /\ step = Unused /\ hist = Unused
  /\ g_ensemble = Unused /\ g_pes = Unused /\ gp_output_values = Unused
  /\ lfsr = Unused /\ recd = Unused /\ sdram = Unused /\ sim = Unused
  /\ tick = Unused /\ ehist = Unused /\ vs = Unused
  /\ NoBridge

\* The correction on_mcpl_rx sends: latency = (recv - send) / 2 unsigned,
\* remote_time += latency, error = recv - remote_time.
CorrectionFullTrip(recv, send, remote_time) ==
  Sub32(recv, Add32(remote_time, Sub32(recv, send)))
Correction(recv, send, remote_time) ==
  Sub32(recv, Add32(remote_time, Half32(Sub32(recv, send))))

\* The pings a pong with this key can be the answer to: the pings sent to
\* the node, by their number, that no pong has answered yet.
OpenPings(key) ==
  {p \in chist.open : NodeKeys(chist.pings[p]).pong = key}

\* on_mcpl_rx, priority -1: runs to completion at any point of
\* on_timer_tick.  NOW is read once, on entry.  A node answers a ping at
\* most once, after any delay; last_of is the number of the ping the pong
\* handled last is the answer to.
on_mcpl_rx(key, remote_time, dt) ==
  /\ Controlling
  /\ chist.pongs < CtlPongBound
  /\ key = ctl.cur_node_keys.pong => ~chist.answered
  /\ LET recv == Add32(ctl.now, dt)
         error == Correction(recv, ctl.ping_send_time, remote_time)
     IN IF key # ctl.cur_node_keys.pong
        THEN /\ ctl' = [ctl EXCEPT !.now = recv]
             /\ net' = net
             /\ chist' = [chist EXCEPT
                  !.pongs = @ + 1,
                  !.last_rx = [key |-> key, remote_time |-> remote_time]]
        ELSE /\ ctl' = [ctl EXCEPT !.now = recv,
                                   !.last_correction = error,
                                   !.pong_received = TRUE]
             /\ net' = Append(net, [key |-> ctl.cur_node_keys.correction,
                                    payload |-> error])
             /\ \E p \in OpenPings(key) :
                  chist' = [chist EXCEPT
                    !.pongs = @ + 1,
                    !.answered = TRUE,
                    !.open = @ \ {p},
                    !.last_of = p,
                    !.round = Append(@, error),
                    !.last_rx = [key |-> key, remote_time |-> remote_time]]
  /\ UNCHANGED <<kernel, g_input, step, hist, g_ensemble, g_pes,
                 gp_output_values, lfsr, recd, sdram, sim, tick, ehist,
                 svars, bvars>>

\* on_timer_tick, first statement: the answer of the node pinged last is
\* folded into min_correction and max_correction.
Collect(c) ==
  IF c.pong_received /\ c.cur_node # UINT32_MAX
  THEN [c EXCEPT
          !.min_correction =
             IF c.last_correction < @ \/ c.cur_node = 0
             THEN c.last_correction ELSE @,
          !.max_correction =
             IF c.last_correction > @ \/ c.cur_node = 0
             THEN c.last_correction ELSE @]
  ELSE c

\* ++cur_node, back to 0 when it reaches num_nodes.
NextNodeSkip(cur_node, num_nodes) ==
  IF cur_node + 2 >= num_nodes THEN 0 ELSE cur_node + 2
NextNode(cur_node, num_nodes) ==
  IF cur_node + 1 >= num_nodes THEN 0 ELSE cur_node + 1

\* on_timer_tick from "if (++cur_node >= num_nodes)" to the call of
\* spin1_send_mc_packet, the ping sent at time t.
PingNextWaitPong(c, t) ==
  LET stay == ~c.pong_received /\ c.cur_node # UINT32_MAX
      n == IF stay THEN c.cur_node ELSE NextNode(c.cur_node, c.num_nodes)
  IN [c EXCEPT
        !.cur_node = n,
        !.correction_range =
           IF ~stay /\ c.cur_node + 1 >= c.num_nodes
           THEN Sub32(c.max_correction, c.min_correction) ELSE @,
        !.cur_node_keys = NodeKeys(n),
        !.now = t,
        !.pc = "stamp"]
PingNext(c, t) ==
  LET n == NextNode(c.cur_node, c.num_nodes)
  IN [c EXCEPT
        !.cur_node = n,
        !.correction_range =
           IF c.cur_node + 1 >= c.num_nodes
           THEN Sub32(c.max_correction, c.min_correction) ELSE @,
        !.cur_node_keys = NodeKeys(n),
        !.now = t,
        !.pc = "stamp"]

\* on_timer_tick, the two statements after the ping has been sent:
\* ping_send_time = NOW; pong_received = FALSE.
StampPing(c) ==
  [c EXCEPT !.ping_send_time = c.now, !.pong_received = FALSE, !.pc = "idle"]

\* on_timer_tick up to the update of min_correction and max_correction.
TickCollect ==
  /\ Controlling
  /\ ctl.pc = "idle"
  /\ chist.ticks < CtlTickBound
  /\ ctl' = [Collect(ctl) EXCEPT !.pc = "advance"]
  /\ chist' = [chist EXCEPT
       !.missed = IF ~ctl.pong_received /\ ctl.cur_node # UINT32_MAX
                  THEN @ + 1 ELSE @]
  /\ UNCHANGED <<kernel, g_input, step, hist, g_ensemble, g_pes,
                 gp_output_values, lfsr, recd, sdram, sim, tick, net, ehist,
                 svars, bvars>>

\* on_timer_tick, next part: next node, publication of correction_range
\* at the end of a round, the ping.
TickAdvance ==
  /\ Controlling
  /\ ctl.pc = "advance"
  /\ ctl' = PingNext(ctl, Add32(ctl.now, TickPeriod))
  /\ net' = Append(net, [key |-> ctl'.cur_node_keys.ping, payload |-> 0])
  /\ LET wrap == ctl.cur_node # UINT32_MAX /\ ctl'.cur_node = 0
     IN chist' = [chist EXCEPT
          !.ticks = @ + 1,
          !.answered = FALSE,
          !.open = @ \cup {chist.ticks + 1},
          !.pings = Append(@, ctl'.cur_node),
          !.last_ping[ctl'.cur_node] = chist.ticks + 1,
          !.rounds = IF wrap THEN @ + 1 ELSE @,
          !.sent = IF wrap THEN chist.round ELSE @,
          !.round = IF wrap THEN <<>> ELSE @]
  /\ UNCHANGED <<kernel, g_input, step, hist, g_ensemble, g_pes,
                 gp_output_values, lfsr, recd, sdram, sim, tick, ehist,
                 svars, bvars>>

\* on_timer_tick, the end: the send time of the ping is recorded and
\* pong_received cleared.  stamp_of is the number of the ping whose send
\* time ping_send_time holds.
TickStamp ==
  /\ Controlling
  /\ ctl.pc = "stamp"
  /\ ctl' = StampPing(ctl)
  /\ chist' = [chist EXCEPT !.stamp_of = chist.ticks]
  /\ UNCHANGED <<kernel, g_input, step, hist, g_ensemble, g_pes,
                 gp_output_values, lfsr, recd, sdram, sim, tick, net, ehist,
                 svars, bvars>>

NextController ==
  \/ \E key \in PongKeys, pong \in Pongs :
       on_mcpl_rx(key, pong.remote_time, pong.dt)
  \/ TickCollect
  \/ TickAdvance
  \/ TickStamp

SpecController == InitController /\ [][NextController]_vars

(* ---------------------- claims on the controller ---------------------- *)
RECURSIVE SeqMax(_)
SeqMax(q) ==
  IF Len(q) = 1 THEN q[1]
  ELSE LET m == SeqMax(Tail(q)) IN IF q[1] > m THEN q[1] ELSE m

RECURSIVE SeqMin(_)
SeqMin(q) ==
  IF Len(q) = 1 THEN q[1]
  ELSE LET m == SeqMin(Tail(q)) IN IF q[1] < m THEN q[1] ELSE m

\* The keys of the packets sent so far that are pings.
PingsSent == SelectSeq(net, LAMBDA m : \E n \in 0 .. 2 : m.key = NodeKeys(n).ping)

\* C13: every timer tick sends exactly one ping, to the nodes in index
\* order 0, 1, ..., K-1, 0, ...: in every round each node is pinged once,
\* none twice and none skipped, for every K >= 1.
C13_RoundRobinPings ==
  /\ Len(chist.pings) = chist.ticks
  /\ Len(PingsSent) = chist.ticks
  /\ \A i \in 1 .. Len(chist.pings) :
       /\ chist.pings[i] = (i - 1) % ctl.num_nodes
       /\ PingsSent[i].key = NodeKeys((i - 1) % ctl.num_nodes).ping

C13_Witness ==
  /\ ctl.num_nodes = 3
  /\ chist.pings = <<0, 1, 2, 0, 1>>

\* C14: when a round completes, the published correction_range is max - min
\* over exactly the corrections sent during that round, also when nodes
\* (node 0 included) did not answer in it.
C14_RangeOfRound ==
  (chist.rounds > 0 /\ ctl.pc = "idle" /\ ctl.cur_node = 0
   /\ chist.sent # <<>>) =>
    ctl.correction_range = Sub32(SeqMax(chist.sent), SeqMin(chist.sent))

\* C15: a packet with the current node's pong key and payload remote_time
\* makes the controller send exactly one packet on the node's correction
\* key, with error + remote_time + (NOW - ping_send_time) / 2 = NOW in
\* 32-bit arithmetic, and sets last_correction = error and pong_received;
\* a packet with another key sends nothing and changes neither.
C15_PongAnswer ==
  [][(chist'.pongs = chist.pongs + 1) =>
       IF chist'.last_rx.key = ctl.cur_node_keys.pong
       THEN /\ Len(net') = Len(net) + 1
            /\ SubSeq(net', 1, Len(net)) = net
            /\ net'[Len(net')].key = ctl.cur_node_keys.correction
            /\ Add32(Add32(net'[Len(net')].payload, chist'.last_rx.remote_time),
                     Half32(Sub32(ctl'.now, ctl.ping_send_time))) = ctl'.now
            /\ ctl'.last_correction = net'[Len(net')].payload
            /\ ctl'.pong_received
       ELSE /\ net' = net
            /\ ctl'.last_correction = ctl.last_correction
            /\ ctl'.pong_received = ctl.pong_received]_vars

\* A pong answered after the reference timer has wrapped since the ping.
C15_Witness ==
  /\ ctl.pong_received
  /\ ctl.cur_node # UINT32_MAX
  /\ ctl.ping_send_time < 0 /\ ctl.now >= 0
  /\ ctl.last_correction # 0

\* C16: whatever pongs were missed, every tick pings the next node and
\* nothing else is sent again: the number of pings equals the number of
\* ticks, and every node was pinged within the last K ticks.
C16_NoStall ==
  /\ Len(PingsSent) = chist.ticks
  /\ \A n \in CtlNodes(ctl) :
       chist.ticks >= ctl.num_nodes =>
         /\ chist.last_ping[n] > 0
         /\ chist.ticks - chist.last_ping[n] < ctl.num_nodes

C16_Witness ==
  /\ chist.missed >= 2
  /\ ctl.num_nodes = 2
  /\ chist.ticks >= 2 * ctl.num_nodes
  /\ chist.pongs = 0

\* A step of on_mcpl_rx that accepts a pong: it sends a correction.
PongAccepted ==
  /\ Controlling
  /\ chist'.pongs = chist.pongs + 1
  /\ chist'.last_rx.key = ctl.cur_node_keys.pong

\* C36: a pong that answers the ping of the current tick, at whatever point
\* of the tick handler it is handled, finds that ping's send time in
\* ping_send_time; and once the tick handler has returned, pong_received
\* is set if the ping of this tick has been answered.
C36_Step ==
  (PongAccepted /\ chist'.last_of = chist.ticks) =>
    chist.stamp_of = chist.ticks

C36_Kept ==
  (Controlling /\ ctl.pc = "idle" /\ chist.ticks > 0
   /\ chist.ticks \notin chist.open) => ctl.pong_received

C36_PongSeesPing == [][C36_Step]_vars /\ []C36_Kept

\* C37: a pong handled after the tick handler has recorded the send time
\* of a ping is accepted only if it answers that ping and the next tick
\* handler has not started: a pong that comes later sends no correction
\* and does not set pong_received, for every number of nodes.
C37_Step ==
  (PongAccepted /\ ctl.pc # "stamp") =>
    /\ chist'.last_of = chist.ticks
    /\ ctl.pc # "advance"

C37_LatePongIgnored == [][C37_Step]_vars

(* ====================================================================== *)
(* Rx / Filter / Tx bridge                                                *)
(* ====================================================================== *)
\* Three cores: Rx turns host messages into multicast packets, Filter
\* receives them through the filtered-input subsystem and re-emits its input
\* vector, Tx receives those and sends host frames.  A multicast packet is
\* handled by the receiving core's packet callback (priority -1) at whatever
\* point its timer handler has reached.

MaxMsgs == 2
MaxRxTicks == 3
MaxFltTicks == 2
MaxTxTicks == 2
MaxRelayTicks == 4
MaxRelayPackets == 2

\* The Filter and Tx cores are run behind an Rx core ("bridge") or on their
\* own, fed by packets from elsewhere ("relay").
Relaying == kernel \in {"bridge", "relay"}
TickBound(b) == IF kernel = "bridge" THEN b ELSE MaxRelayTicks

BridgeDims == 2
BridgeKeys(d) == d

\* Generations of the Rx kernel: "main" is sdp-rx-main.c (fresh flags),
\* "harness" is the sdp-rx part of rx-harness.c (no flags), "rx" is
\* rx-update.c with rx-sdp.c (values / n_current_output).
RxGenerations == {"main", "harness", "rx"}

\* Initial values region of the "rx" generation.
InitialValues(d) == 5 + d

\* c_main of each generation: current dimension 0, outputs zeroed (or copied
\* from the initial values region), flags cleared.  A generation without
\* fresh flags keeps the field at FALSE throughout.
LoadRx(gen, n) ==
  [gen |-> gen,
   n_dimensions |-> n,
   current_dimension |-> 0,
   output |-> [d \in 0 .. (n - 1) |->
                 IF gen = "rx" THEN InitialValues(d) ELSE 0],
   fresh |-> [d \in 0 .. (n - 1) |-> FALSE],
   keys |-> [d \in 0 .. (n - 1) |-> BridgeKeys(d)],
   pc |-> "idle",
   ticks |-> 0]

\* One unit filter (a = 0, 1 - a = 1.0) fed by one route that takes the
\* dimension from bit 0 of the key.
UnitInput(n) ==
  LoadInput(n, << <<0, ONE>> >>,
            << [key |-> 0, mask |-> 12, filter |-> 0,
                dimension_mask |-> 1] >>)

\* data_system + data_get_output_keys + get_filters + get_filter_routes of
\* the Filter kernel; the Tx kernel is loaded the same way and has no keys.
LoadCore(n, delay) ==
  [g |-> UnitInput(n),
   n_dimensions |-> n,
   transmission_delay |-> delay,
   delay_remaining |-> delay,
   keys |-> [d \in 0 .. (n - 1) |-> BridgeKeys(d)],
   simulation_ticks |-> UINT32_MAX,
   run |-> TRUE,
   ticks |-> 0,
   pc |-> "idle", f |-> 0, d |-> 0]

\* Messages the host sends: cmd_rc, arg1 (first dimension), arg2 (number of
\* dimensions) and the data words.
HostMessages ==
  { [cmd_rc |-> 1, arg1 |-> 0, arg2 |-> 2, data |-> <<ONE, 2 * ONE>>],
    [cmd_rc |-> 1, arg1 |-> 1, arg2 |-> 1, data |-> <<3 * ONE, -3>>] }

NoMessage == [cmd_rc |-> 0, arg1 |-> 0, arg2 |-> 0, data |-> <<0, 0>>]

NoHost ==
  [msgs |-> 0, sent |-> NoMessage, mailbox |-> NoMessage, frames |-> <<>>,
   order |-> <<>>, since |-> 0, raced |-> FALSE,
   flt_last |-> [tick |-> 0, pkts |-> <<>>], frame_ticks |-> <<>>,
   lt |-> [d |-> 0, was_fresh |-> FALSE, emitted |-> FALSE]]

InitBridge ==
  /\ kernel = "bridge"
  /\ \E gen \in RxGenerations : rx = LoadRx(gen, BridgeDims)
  /\ flt = LoadCore(BridgeDims, 1)
  /\ tx = LoadCore(BridgeDims, 1)
  /\ host = NoHost
  /\ g_input = Unused /\ step = Unused /\ hist = Unused
  /\ g_ensemble = Unused /\ g_pes = Unused /\ gp_output_values = Unused
  /\ lfsr = Unused /\ recd = Unused /\ sdram = Unused /\ sim = Unused
  /\ tick = Unused /\ net = Unused /\ ehist = Unused /\ vs = Unused
  /\ NoController

\* sdp_received (sdp-rx-main.c): every data word is copied into output and
\* every dimension is marked fresh, whatever cmd_rc is.
sdp_received(r, msg) ==
  [r EXCEPT !.output = [d \in 0 .. (r.n_dimensions - 1) |-> msg.data[d + 1]],
            !.fresh = [d \in 0 .. (r.n_dimensions - 1) |-> TRUE]]

\* sdp_received (rx-harness.c): memcpy of the data words over output.
sdp_received_harness(r, msg) ==
  [r EXCEPT !.output = [d \in 0 .. (r.n_dimensions - 1) |-> msg.data[d + 1]]]

\* sdp_packet_received (rx-sdp.c): on cmd_rc = 1,
\* spin1_memcpy(msg->data, &values[arg1], arg2 * sizeof(value_t)): the
\* destination is the message, the source is the stored values.  The result
\* is the message buffer as the handler leaves it; values are not written.
sdp_packet_received(r, msg) ==
  IF msg.cmd_rc = 1
  THEN [msg EXCEPT !.data = [i \in 1 .. Len(msg.data) |->
                               IF i <= msg.arg2 THEN r.output[msg.arg1 + i - 1]
                               ELSE msg.data[i]]]
  ELSE msg

\* SDP_PACKET_RX: the handler of the generation run; it runs to completion
\* at any point of the timer handler.
SdpRx(msg) ==
  /\ kernel = "bridge"
  /\ host.msgs < MaxMsgs
  /\ rx' = IF rx.gen = "main" THEN sdp_received(rx, msg)
           ELSE IF rx.gen = "harness" THEN sdp_received_harness(rx, msg)
           ELSE rx
  /\ host' = [host EXCEPT
       !.msgs = @ + 1,
       !.sent = msg,
       !.mailbox = IF rx.gen = "rx" THEN sdp_packet_received(rx, msg) ELSE msg,
       !.order = <<>>,
       !.since = 0]
  /\ UNCHANGED <<kernel, ivars, evars, svars, cvars, flt, tx>>

\* A packet for dimension d handled by core c after input_buffer_step has read
\* accumulator[d] and before it has zeroed it.
MidStep(c, d) == c.pc = "zero" /\ c.d = d

\* Whether the timer handler of the generation sends on this tick.
RxSends(r) == IF r.gen = "main" THEN r.fresh[r.current_dimension] ELSE TRUE

\* sdp_rx_tick / timer_callback up to and including the send: the packet
\* (keys[d], bitsk(output[d])) reaches the Filter core's packet callback.
RxTickSend ==
  /\ kernel = "bridge"
  /\ rx.pc = "idle"
  /\ rx.ticks < MaxRxTicks
  /\ LET d == rx.current_dimension
     IN /\ flt' = IF RxSends(rx)
                  THEN [flt EXCEPT !.g = incoming_dimension_value_callback(
                                            @, rx.keys[d], bitsk(rx.output[d]))]
                  ELSE flt
        /\ host' = [host EXCEPT
             !.raced = @ \/ (RxSends(rx) /\ MidStep(flt, d)),
             !.since = @ + 1,
             !.order = IF RxSends(rx) THEN Append(@, <<d, rx.output[d]>>)
                       ELSE @,
             !.lt = [d |-> d, was_fresh |-> rx.fresh[d],
                     emitted |-> RxSends(rx)]]
  /\ rx' = [rx EXCEPT !.pc = "sent", !.ticks = @ + 1]
  /\ UNCHANGED <<kernel, ivars, evars, svars, cvars, tx>>

\* The rest of the handler: fresh[d] = false when the packet was sent, then
\* the current dimension advances and wraps at n_dimensions.
RxTickAdvance ==
  /\ kernel = "bridge"
  /\ rx.pc = "sent"
  /\ LET d == rx.current_dimension
     IN rx' = [rx EXCEPT
          !.fresh[d] = IF rx.gen = "main" /\ host.lt.emitted THEN FALSE ELSE @,
          !.current_dimension = IF d + 1 >= rx.n_dimensions THEN 0 ELSE d + 1,
          !.pc = "idle"]
  /\ UNCHANGED <<kernel, ivars, evars, svars, cvars, flt, tx, host>>

\* filter_update / sdp_tx_update up to the first loop of input_filter_step:
\* the exit test, then input[d] = 0 for every d.
CoreBegin(c) ==
  [c EXCEPT
     !.run = IF c.simulation_ticks # UINT32_MAX
                /\ c.ticks + 1 >= c.simulation_ticks
             THEN FALSE ELSE @,
     !.ticks = @ + 1,
     !.g = ZeroInput(@),
     !.pc = "filter", !.f = 0, !.d = 0]

\* filtered[d] is updated from the accumulator cell as read now.
CoreFilter(c) == [c EXCEPT !.g = FilterDim(@, c.f, c.d), !.pc = "zero"]

\* accumulator[d] = 0 and the loop control; after the last filter,
\* delay_remaining-- and, when it reaches 0, the reload and the transmission.
CoreZeroNoReload(c) ==
  LET z == ZeroDim(c.g, c.f, c.d)
  IN IF c.d + 1 < c.g.n_dimensions
     THEN [c EXCEPT !.g = z, !.pc = "filter", !.d = c.d + 1]
     ELSE IF c.f + 1 < c.g.n_filters
     THEN [c EXCEPT !.g = AddFiltered(z, c.f), !.pc = "filter",
                    !.f = c.f + 1, !.d = 0]
     ELSE IF c.delay_remaining - 1 = 0
     THEN [c EXCEPT !.g = AddFiltered(z, c.f), !.pc = "send", !.f = 0,
                    !.d = 0, !.delay_remaining = 1]
     ELSE [c EXCEPT !.g = AddFiltered(z, c.f), !.pc = "idle", !.f = 0,
                    !.d = 0, !.delay_remaining = c.delay_remaining - 1]
CoreZero(c) ==
  LET z == ZeroDim(c.g, c.f, c.d)
  IN IF c.d + 1 < c.g.n_dimensions
     THEN [c EXCEPT !.g = z, !.pc = "filter", !.d = c.d + 1]
     ELSE IF c.f + 1 < c.g.n_filters
     THEN [c EXCEPT !.g = AddFiltered(z, c.f), !.pc = "filter",
                    !.f = c.f + 1, !.d = 0]
     ELSE IF c.delay_remaining - 1 = 0
     THEN [c EXCEPT !.g = AddFiltered(z, c.f), !.pc = "send", !.f = 0,
                    !.d = 0, !.delay_remaining = c.transmission_delay]
     ELSE [c EXCEPT !.g = AddFiltered(z, c.f), !.pc = "idle", !.f = 0,
                    !.d = 0, !.delay_remaining = c.delay_remaining - 1]

FltBegin ==
  /\ Relaying
  /\ flt.pc = "idle" /\ flt.run /\ flt.ticks < TickBound(MaxFltTicks)
  /\ flt' = CoreBegin(flt)
  /\ UNCHANGED <<kernel, ivars, evars, svars, cvars, rx, tx, host>>

FltFilter ==
  /\ Relaying
  /\ flt.pc = "filter"
  /\ flt' = CoreFilter(flt)
  /\ UNCHANGED <<kernel, ivars, evars, svars, cvars, rx, tx, host>>

FltZero ==
  /\ Relaying
  /\ flt.pc = "zero"
  /\ flt' = CoreZero(flt)
  /\ UNCHANGED <<kernel, ivars, evars, svars, cvars, rx, tx, host>>

\* One turn of the transmission loop of filter_update: the packet
\* (keys[d], bitsk(input[d])) reaches the Tx core's packet callback.
FltSend ==
  /\ Relaying
  /\ flt.pc = "send"
  /\ tx' = [tx EXCEPT !.g = incoming_dimension_value_callback(
                               @, flt.keys[flt.d], bitsk(flt.g.input[flt.d]))]
  /\ flt' = IF flt.d + 1 < flt.n_dimensions
            THEN [flt EXCEPT !.d = @ + 1]
            ELSE [flt EXCEPT !.pc = "idle", !.d = 0]
  /\ host' = [host EXCEPT
       !.raced = @ \/ MidStep(tx, flt.d),
       !.flt_last = [tick |-> flt.ticks,
                     pkts |-> Append(IF flt.d = 0 THEN <<>> ELSE @.pkts,
                                     <<flt.keys[flt.d],
                                       bitsk(flt.g.input[flt.d])>>)]]
  /\ UNCHANGED <<kernel, ivars, evars, svars, cvars, rx>>

TxBegin ==
  /\ Relaying
  /\ tx.pc = "idle" /\ tx.run /\ tx.ticks < TickBound(MaxTxTicks)
  /\ tx' = CoreBegin(tx)
  /\ UNCHANGED <<kernel, ivars, evars, svars, cvars, rx, flt, host>>

TxFilter ==
  /\ Relaying
  /\ tx.pc = "filter"
  /\ tx' = CoreFilter(tx)
  /\ UNCHANGED <<kernel, ivars, evars, svars, cvars, rx, flt, host>>

TxZero ==
  /\ Relaying
  /\ tx.pc = "zero"
  /\ tx' = CoreZero(tx)
  /\ UNCHANGED <<kernel, ivars, evars, svars, cvars, rx, flt, host>>

\* The SDP message of sdp_tx_update: cmd_rc = 1, tag 1, destination (0, 0)
\* port 0xff, data copied from the input vector.
TxFrame(c) ==
  [dest_addr |-> 0, dest_port |-> 255, flags |-> 7, tag |-> 1, cmd_rc |-> 1,
   data |-> [i \in 1 .. c.n_dimensions |-> c.g.input[i - 1]]]

TxSend ==
  /\ Relaying
  /\ tx.pc = "send"
  /\ host' = [host EXCEPT !.frames = Append(@, TxFrame(tx)),
                          !.frame_ticks = Append(@, tx.ticks)]
  /\ tx' = [tx EXCEPT !.pc = "idle"]
  /\ UNCHANGED <<kernel, ivars, evars, svars, cvars, rx, flt>>

NextBridge ==
  \/ \E msg \in HostMessages : SdpRx(msg)
  \/ RxTickSend
  \/ RxTickAdvance
  \/ FltBegin
  \/ FltFilter
  \/ FltZero
  \/ FltSend
  \/ TxBegin
  \/ TxFilter
  \/ TxZero
  \/ TxSend

SpecBridge == InitBridge /\ [][NextBridge]_vars

(* ====================================================================== *)
(* Filter and Tx kernels on their own                                     *)
(* ====================================================================== *)
\* The Filter core receives packets from elsewhere on the machine; its
\* output packets go to the Tx core as before.  transmission_delay and
\* simulation_ticks come from the system region.

RelayDelays == {1, 2, 3}
RelayEnds == {UINT32_MAX, 2}
RelayKeys == {BridgeKeys(0), BridgeKeys(1)}
RelayPayloads == {ONE, -3}

InitRelay ==
  /\ kernel = "relay"
  /\ \E T \in RelayDelays, e \in RelayEnds :
       /\ flt = [LoadCore(BridgeDims, T) EXCEPT !.simulation_ticks = e]
       /\ tx = [LoadCore(BridgeDims, T) EXCEPT !.simulation_ticks = e]
  /\ rx = Unused
  /\ host = NoHost
  /\ g_input = Unused /\ step = Unused /\ hist = Unused
  /\ g_ensemble = Unused /\ g_pes = Unused /\ gp_output_values = Unused
  /\ lfsr = Unused /\ recd = Unused /\ sdram = Unused /\ sim = Unused
  /\ tick = Unused /\ net = Unused /\ ehist = Unused /\ vs = Unused
  /\ NoController

\* mcpl_callback of the Filter core, for a packet from elsewhere.
RelayRx(key, payload) ==
  /\ kernel = "relay"
  /\ host.msgs < MaxRelayPackets
  /\ flt' = [flt EXCEPT
       !.g = incoming_dimension_value_callback(@, key, payload)]
  /\ host' = [host EXCEPT
       !.msgs = @ + 1,
       !.raced = @ \/ MidStep(flt, BitAnd(key, 1))]
  /\ UNCHANGED <<kernel, ivars, evars, svars, cvars, rx, tx>>

NextRelay ==
  \/ \E key \in RelayKeys, payload \in RelayPayloads : RelayRx(key, payload)
  \/ FltBegin
  \/ FltFilter
  \/ FltZero
  \/ FltSend
  \/ TxBegin
  \/ TxFilter
  \/ TxZero
  \/ TxSend

SpecRelay == InitRelay /\ [][NextRelay]_vars

(* ------------------------- claims: relay ------------------------------ *)

C28_EndTickNoWork ==
  kernel = "relay" =>
    /\ (flt.simulation_ticks # UINT32_MAX
          /\ flt.ticks >= flt.simulation_ticks) =>
         /\ flt.pc = "idle"
         /\ host.flt_last.tick < flt.simulation_ticks
    /\ (tx.simulation_ticks # UINT32_MAX
          /\ tx.ticks >= tx.simulation_ticks) =>
         /\ tx.pc = "idle"
         /\ \A i \in 1 .. Len(host.frame_ticks) :
              host.frame_ticks[i] < tx.simulation_ticks

(* ------------------------- claims: bridge ----------------------------- *)

Min(a, b) == IF a <= b THEN a ELSE b

\* C17: on each Rx timer tick the packet (keys[d], output[d]) for the
\* current dimension d is emitted if and only if fresh[d] is set, the flag is
\* clear afterwards (unless a host message was handled while the tick ran)
\* and the current dimension advances by one modulo n_dims;
\* hence nothing is emitted before the first host message, and after a host
\* message each dimension's value is emitted exactly once within the next
\* n_dims ticks and nothing more until another message arrives.
C17_TickContract ==
  (rx.pc = "sent" /\ rx'.pc = "idle") =>
    /\ host.lt.emitted = host.lt.was_fresh
    /\ host.since > 0 => ~rx'.fresh[host.lt.d]
    /\ rx'.current_dimension = (host.lt.d + 1) % rx.n_dimensions

C17_OncePerMessage ==
  /\ host.msgs = 0 => host.order = <<>>
  /\ Len(host.order) <= rx.n_dimensions
  /\ (host.msgs > 0 /\ host.since >= rx.n_dimensions) =>
       \A d \in 0 .. (rx.n_dimensions - 1) :
         Cardinality({i \in 1 .. Len(host.order) : host.order[i][1] = d}) = 1
         /\ \E i \in 1 .. Len(host.order) :
              host.order[i] = <<d, host.sent.data[d + 1]>>

C17_RxTick == [][C17_TickContract]_vars /\ []C17_OncePerMessage

\* C39: in the generation with fresh flags, a host message handled while
\* the tick handler is between its send and the clearing of fresh[d] keeps
\* its value for d: the flag is still set when the handler returns, and
\* every value of the most recent message has been emitted on its key once
\* n_dims ticks have followed it.
C39_Step ==
  (kernel = "bridge" /\ rx.gen = "main" /\ rx.pc = "sent" /\ rx'.pc = "idle"
   /\ host.msgs > 0 /\ host.since = 0) => rx'.fresh[host.lt.d]

C39_Delivered ==
  (kernel = "bridge" /\ rx.gen = "main" /\ rx.pc = "idle" /\ host.msgs > 0
   /\ host.since >= rx.n_dimensions) =>
    \A d \in 0 .. (rx.n_dimensions - 1) :
      \E i \in 1 .. Len(host.order) :
        host.order[i] = <<d, host.sent.data[d + 1]>>

C39_NoLossUnderPreemption == [][C39_Step]_vars /\ []C39_Delivered

\* C18: in the generation with fresh flags, after a host message and
\* whatever the number of ticks before it, the k-th tick that follows
\* (k = 1 .. n_dims) emits dimension k - 1 with the value of the message:
\* K0 first, then K1, ...
C18_AscendingOrder ==
  (rx.gen = "main" /\ host.msgs > 0) =>
    /\ Len(host.order) = Min(host.since, rx.n_dimensions)
    /\ \A i \in 1 .. Len(host.order) :
         host.order[i] = <<i - 1, host.sent.data[i]>>

\* C19: the handling of a host message with cmd_rc = 1 leaves the stored
\* output values equal to the data words of the message (word i for
\* dimension i, every i < n_dims), every dimension marked fresh, and the
\* message as the host sent it.
C19_Replace ==
  [][(host'.msgs = host.msgs + 1 /\ host'.sent.cmd_rc = 1) =>
       /\ rx'.output = [d \in 0 .. (rx.n_dimensions - 1) |->
                          host'.sent.data[d + 1]]
       /\ \A d \in 0 .. (rx.n_dimensions - 1) : rx'.fresh[d]
       /\ host'.mailbox = host'.sent]_vars

\* Nothing of the one host message is left on the way: Rx has sent every
\* dimension, Filter and Tx are between ticks with empty accumulators.
BridgeDrained ==
  /\ rx.pc = "idle" /\ flt.pc = "idle" /\ tx.pc = "idle"
  /\ \A d \in 0 .. (BridgeDims - 1) :
       /\ ~rx.fresh[d]
       /\ flt.g.filters[0].accumulator[d] = 0
       /\ tx.g.filters[0].accumulator[d] = 0

\* C20: with unit filters, transmission_delay = 1 and every packet
\* delivered, a value V injected by one host message on dimension d is
\* element d, bit for bit, of a host frame once it has passed Rx, Filter
\* and Tx.
C20_RoundTrip ==
  (rx.gen = "main" /\ host.msgs = 1 /\ BridgeDrained) =>
    \A d \in 0 .. (BridgeDims - 1) :
      \E i \in 1 .. Len(host.frames) :
        host.frames[i].data[d + 1] = host.sent.data[d + 1]

(* ====================================================================== *)
(* Initialisation of a kernel (c_main) and packets on the loaded tables   *)
(* ====================================================================== *)

\* Bounds of the runs after initialisation.
MaxLoadPackets == 2
MaxLoadTicks == 1

\* Number of input dimensions written by the system region.
LoadDims == 2

\* A pointer spin1_malloc returned NULL for.
NULL == "null"

\* g_input before c_main runs: a zero-initialised global.
ZeroedInput ==
  [n_dimensions |-> 0, n_filters |-> 0, n_routes |-> 0, routes |-> <<>>,
   filters |-> <<>>, input |-> NULL]

\* initialise_input: the input vector is the one checked allocation.
initialise_input(g, nd, ok) ==
  [g EXCEPT !.n_dimensions = nd,
            !.input = IF ok THEN [d \in 0 .. (nd - 1) |-> 0] ELSE NULL]

\* Position of the allocations of get_filters in the order they are made:
\* the array of filter pointers, then for filter f the three spin1_malloc
\* calls of input_buffer_initialise.
BufferAlloc(f) == 1 + 3 * f
AccumulatorAlloc(f) == 2 + 3 * f
FilteredAlloc(f) == 3 + 3 * f
FilterAllocs(region) == 1 + 3 * Len(region)

\* input_buffer_initialise followed by the four assignments of get_filters
\* for one filter, the first k allocations of get_filters succeeding.  None
\* of the three pointers is tested; the record is marked NULL when one of
\* them is.  The modulatory word of the region entry is not copied.
input_buffer_initialise(entry, nd, f, k) ==
  [ptr |-> IF FilteredAlloc(f) < k THEN "ok" ELSE NULL,
   filter |-> entry.filter, n_filter |-> entry.filter_,
   mask |-> entry.mask, mask_ |-> (-1) - entry.mask,
   accumulator |-> [d \in 0 .. (nd - 1) |-> 0],
   filtered |-> [d \in 0 .. (nd - 1) |-> 0]]

\* get_filters: the new g_input and the value returned.
get_filters(g, region, k) ==
  LET n == Len(region)
  IN IF n > 0 /\ k = 0
     THEN [g |-> [g EXCEPT !.n_filters = n], ok |-> FALSE]
     ELSE [g |-> [g EXCEPT
                    !.n_filters = n,
                    !.filters = [f \in 0 .. (n - 1) |->
                       input_buffer_initialise(region[f + 1],
                                               g.n_dimensions, f, k)]],
           ok |-> TRUE]

\* get_filter_routes: the new g_input and the value returned.  The table is
\* copied as it is.
get_filter_routes(g, region, ok) ==
  LET n == Len(region)
  IN IF g.n_filters > 0 /\ n > 0
     THEN IF ok
          THEN [g |-> [g EXCEPT !.n_routes = n,
                         !.routes = [r \in 0 .. (n - 1) |-> region[r + 1]]],
                ok |-> TRUE]
          ELSE [g |-> [g EXCEPT !.n_routes = n], ok |-> FALSE]
     ELSE [g |-> [g EXCEPT !.n_routes = n], ok |-> TRUE]

\* input_filter of the older callback: the filter slot of the first matching
\* route, -1 standing for the NULL returned when no route matches.
input_filter(g, key) ==
  LET i == ScanRoutes(g, 0, key)
  IN IF i = -1 THEN -1 ELSE g.routes[i].filter

\* Whether filters[f]->accumulator[d] is an object of the program: f is a
\* slot of the filter array, its buffer and arrays were allocated, and d is
\* inside the arrays.
ValidCell(g, f, d) ==
  /\ f \in Filters(g)
  /\ g.filters[f].ptr = "ok"
  /\ d \in Dims(g)

\* The cell a packet is accumulated into, and the value: the route loop of
\* filtered-input.c, or the lookup of the older callback (bottom nibble of
\* the key, raw payload).  f = -2 when the packet is dropped.
PacketTarget(g, cb, key, payload) ==
  IF cb = "routes"
  THEN LET i == ScanRoutes(g, 0, key)
       IN IF i = -1 THEN [f |-> -2, d |-> 0, v |-> 0]
          ELSE [f |-> g.routes[i].filter,
                d |-> BitAnd(key, g.routes[i].dimension_mask),
                v |-> kbits(payload)]
  ELSE [f |-> input_filter(g, key), d |-> BitAnd(key, 15), v |-> payload]

(* ---------------- configurations of c_main that are run --------------- *)

CallbackGenerations == {"routes", "lookup"}

\* Entries {filter, filter_, mask, modulatory} of the filter region.
FilterEntries ==
  { [filter |-> 16384, filter_ |-> 16384, mask |-> k, modulatory |-> m] :
      k \in {0, -1}, m \in {0, 1} }
FilterRegions ==
  { <<a>> : a \in FilterEntries } \cup
  { <<a, b>> : a \in FilterEntries, b \in FilterEntries }

RouteRegions ==
  { \* keys with bit 4 set match nothing
    << [key |-> 0, mask |-> 16, filter |-> 0, dimension_mask |-> 1] >>,
    << [key |-> 0, mask |-> 16, filter |-> 1, dimension_mask |-> 1] >>,
    \* keys with bit 4 set are routed to a filter no region holds
    << [key |-> 0, mask |-> 16, filter |-> 0, dimension_mask |-> 1],
       [key |-> 16, mask |-> 16, filter |-> 2, dimension_mask |-> 1] >> }

LoadKeys == {0, 1, 16}
LoadPayloads == {3, 5}

NoPacket == [key |-> 0, payload |-> 0, f |-> -2, d |-> 0, valid |-> FALSE]

InitLoad ==
  /\ kernel = "load"
  /\ g_input = ZeroedInput
  /\ \E cb \in CallbackGenerations : step = [pc |-> "system", cb |-> cb]
  /\ \E fr \in FilterRegions, rr \in RouteRegions :
       hist = [fregion |-> fr, rregion |-> rr, failed |-> FALSE,
               timer |-> FALSE, packets |-> 0, ticks |-> 0, wild |-> 0,
               route_loaded |-> FALSE, last |-> NoPacket]
  /\ g_ensemble = Unused /\ g_pes = Unused /\ gp_output_values = Unused
  /\ lfsr = Unused /\ recd = Unused /\ sdram = Unused /\ sim = Unused
  /\ tick = Unused /\ net = Unused /\ ehist = Unused /\ vs = Unused
  /\ NoController /\ NoBridge

\* c_main up to the first return: data_system, whose allocation is the one
\* of initialise_input.
MainSystem ==
  /\ kernel = "load"
  /\ step.pc = "system"
  /\ \E ok \in BOOLEAN :
       /\ g_input' = initialise_input(g_input, LoadDims, ok)
       /\ step' = [step EXCEPT !.pc = IF ok THEN "filters" ELSE "idle"]
       /\ hist' = [hist EXCEPT !.failed = ~ok]
  /\ UNCHANGED <<kernel, evars, svars, cvars, bvars>>

\* c_main: get_filters.  A NULL buffer pointer is written through inside the
\* call (buffer->d_in = d_in): the write either stops the core or lands at
\* address 0 and the call carries on.
MainFilters ==
  /\ kernel = "load"
  /\ step.pc = "filters"
  /\ \E k \in 0 .. FilterAllocs(hist.fregion), trap \in BOOLEAN :
       LET r == get_filters(g_input, hist.fregion, k)
           through == r.ok /\ BufferAlloc(Len(hist.fregion) - 1) >= k
       IN /\ trap => through
          /\ g_input' = r.g
          /\ step' = [step EXCEPT !.pc = IF ~r.ok THEN "idle"
                                         ELSE IF trap THEN "dead"
                                         ELSE "routes"]
          /\ hist' = [hist EXCEPT
               !.failed = k < FilterAllocs(hist.fregion)]
  /\ UNCHANGED <<kernel, evars, svars, cvars, bvars>>

\* c_main: get_filter_routes, then spin1_set_timer_tick and spin1_start
\* unless one of the two calls returned false.
MainRoutes ==
  /\ kernel = "load"
  /\ step.pc = "routes"
  /\ \E ok \in BOOLEAN :
       LET r == get_filter_routes(g_input, hist.rregion, ok)
       IN /\ g_input' = r.g
          /\ step' = [step EXCEPT !.pc = IF r.ok THEN "run" ELSE "idle"]
          /\ hist' = [hist EXCEPT !.failed = @ \/ ~ok,
                                  !.timer = r.ok,
                                  !.route_loaded = r.ok]
  /\ UNCHANGED <<kernel, evars, svars, cvars, bvars>>

\* MCPL_PACKET_RECEIVED once the kernel runs.  An accumulation outside the
\* objects of the program (a NULL or out-of-range filter pointer, a cell
\* outside the arrays) either stops the core or lands in other memory.
LoadMcplRx(key, payload) ==
  /\ kernel = "load"
  /\ step.pc = "run"
  /\ hist.packets < MaxLoadPackets
  /\ LET t == PacketTarget(g_input, step.cb, key, payload)
         valid == ValidCell(g_input, t.f, t.d)
     IN \E trap \in BOOLEAN :
          /\ trap => (t.f # -2 /\ ~valid)
          /\ g_input' = IF valid THEN input_buffer_acc(g_input, t.f, t.d, t.v)
                        ELSE g_input
          /\ step' = [step EXCEPT !.pc = IF trap THEN "dead" ELSE @]
          /\ hist' = [hist EXCEPT
               !.packets = @ + 1,
               !.wild = IF t.f # -2 /\ ~valid THEN @ + 1 ELSE @,
               !.last = [key |-> key, payload |-> payload, f |-> t.f,
                         d |-> t.d, valid |-> valid]]
  /\ UNCHANGED <<kernel, evars, svars, cvars, bvars>>

\* TIMER_TICK once the kernel runs: input_filter_step.  A filter whose
\* buffer or arrays are NULL is stepped through the NULL pointer.
LoadTick ==
  /\ kernel = "load"
  /\ step.pc = "run"
  /\ hist.ticks < MaxLoadTicks
  /\ LET sound == \A f \in Filters(g_input) : g_input.filters[f].ptr = "ok"
     IN \E trap \in BOOLEAN :
          /\ trap => ~sound
          /\ g_input' = IF sound THEN input_filter_step(g_input) ELSE g_input
          /\ step' = [step EXCEPT !.pc = IF trap THEN "dead" ELSE @]
          /\ hist' = [hist EXCEPT
               !.ticks = @ + 1,
               !.wild = IF sound THEN @ ELSE @ + 1,
               !.last = [@ EXCEPT !.valid = FALSE, !.f = -2]]
  /\ UNCHANGED <<kernel, evars, svars, cvars, bvars>>

NextLoad ==
  \/ MainSystem
  \/ MainFilters
  \/ MainRoutes
  \/ \E key \in LoadKeys, payload \in LoadPayloads : LoadMcplRx(key, payload)
  \/ LoadTick

SpecLoad == InitLoad /\ [][NextLoad]_vars

(* -------------------- claims: initialisation -------------------------- *)

\* C24: a packet delivered to a cell of a filter accumulates as the
\* filter's modulatory flag in the filter region says: added to the cell
\* when the flag is 0, replacing the cell when the flag is 1.
C24_Modulatory ==
  [][(/\ hist'.packets = hist.packets + 1
      /\ hist'.last.valid)
     => LET f == hist'.last.f
            d == hist'.last.d
            v == PacketTarget(g_input, step.cb, hist'.last.key,
                              hist'.last.payload).v
        IN g_input'.filters[f].accumulator[d] =
             IF hist.fregion[f + 1].modulatory = 1 THEN v
             ELSE g_input.filters[f].accumulator[d] + v]_vars

\* C25: a packet whose key matches no route is dropped without harm: the
\* filters and the input vector are left as they were, no filter pointer is
\* dereferenced, and the kernel goes on running.
C25_UnmatchedDropped ==
  [][(/\ hist'.packets = hist.packets + 1
      /\ Matching(g_input, hist'.last.key) = {})
     => /\ g_input' = g_input
        /\ hist'.wild = hist.wild
        /\ step'.pc = "run"]_vars

\* C26: loading the filter routes fails initialisation when a route names
\* a filter id that is not below n_filters; so whenever the routes were
\* loaded successfully every route's filter id is below n_filters.
C26_RouteFilterValid ==
  hist.route_loaded =>
    \A r \in Routes(g_input) : g_input.routes[r].filter < g_input.n_filters

\* C27: if a step of the initialisation fails (an allocation returns NULL,
\* or get_filters or get_filter_routes returns false) the kernel never
\* starts its timer: spin1_start is not reached, and no tick and no packet
\* handler runs.
C27_FailedInitStaysIdle ==
  hist.failed =>
    /\ ~hist.timer
    /\ hist.ticks = 0
    /\ hist.packets = 0
    /\ step.pc # "run"

(* ====================================================================== *)
(* Worker clock discipline                                                *)
(* ====================================================================== *)

MaxWorkerPackets == 4
MaxWorkerTime == 2

\* region_discipline_keys_t as copied by discipline_initialise.
DisciplineKeys ==
  [ping |-> 32, pong |-> 33, correction |-> 34, start_at |-> 35,
   stop_at |-> 36]

\* sv->cpu_clk (MHz) and the timestep in microseconds handed to
\* discipline_initialise.
CpuClk == 200
TimestepUsec == 1000

\* dclk_read_raw_time: the free-running timer of the core as it stands.
dclk_read_raw_time(c) == c.raw

\* A call the packet handler makes into the disciplined clock or timer.
Call(fn, arg) == [fn |-> fn, arg |-> arg]

\* discipline_initialise; calls is the sequence of calls made into the
\* disciplined clock and timer since.
discipline_initialise(keys, timestep_usec) ==
  [keys |-> keys, first_correction |-> TRUE,
   timestep |-> CpuClk * timestep_usec, raw |-> 0, calls |-> <<>>]

\* discipline_process_mc_packet: the new state, the packets sent and the
\* value returned.
discipline_process_mc_packet_sticky(c, key, payload) ==
  IF key = c.keys.ping
  THEN [c |-> c, sent |-> << <<c.keys.pong, dclk_read_raw_time(c)>> >>,
        handled |-> TRUE]
  ELSE IF key = c.keys.correction
  THEN [c |-> [c EXCEPT
                 !.calls = Append(@,
                    Call(IF c.first_correction THEN "dclk_correct_phase_now"
                         ELSE "dclk_add_correction", payload))],
        sent |-> <<>>, handled |-> TRUE]
  ELSE IF key = c.keys.start_at
  THEN [c |-> [c EXCEPT !.calls = Append(@,
                   Call("dtimer_start_interrupts", <<payload, c.timestep>>))],
        sent |-> <<>>, handled |-> TRUE]
  ELSE IF key = c.keys.stop_at
  THEN [c |-> [c EXCEPT !.calls = Append(@,
                   Call("dtimer_stop_interrupts", <<payload>>))],
        sent |-> <<>>, handled |-> TRUE]
  ELSE [c |-> c, sent |-> <<>>, handled |-> FALSE]
discipline_process_mc_packet(c, key, payload) ==
  IF key = c.keys.ping
  THEN [c |-> c, sent |-> << <<c.keys.pong, dclk_read_raw_time(c)>> >>,
        handled |-> TRUE]
  ELSE IF key = c.keys.correction
  THEN [c |-> [c EXCEPT
                 !.calls = Append(@,
                    Call(IF c.first_correction THEN "dclk_correct_phase_now"
                         ELSE "dclk_add_correction", payload)),
                 !.first_correction = FALSE],
        sent |-> <<>>, handled |-> TRUE]
  ELSE IF key = c.keys.start_at
  THEN [c |-> [c EXCEPT !.calls = Append(@,
                   Call("dtimer_start_interrupts", <<payload, c.timestep>>))],
        sent |-> <<>>, handled |-> TRUE]
  ELSE IF key = c.keys.stop_at
  THEN [c |-> [c EXCEPT !.calls = Append(@,
                   Call("dtimer_stop_interrupts", <<payload>>))],
        sent |-> <<>>, handled |-> TRUE]
  ELSE [c |-> c, sent |-> <<>>, handled |-> FALSE]

\* Keys of the packets that reach the worker: its five discipline keys (its
\* own pong key among them) and a key of the dimensional traffic.
WorkerKeys == {32, 33, 34, 35, 36, 5}
WorkerPayloads == {7, -2}

InitWorker ==
  /\ kernel = "worker"
  /\ ctl = discipline_initialise(DisciplineKeys, TimestepUsec)
  /\ chist = [packets |-> 0, pings |-> 0, corrections |-> 0, sent |-> <<>>,
              last |-> [key |-> 0, payload |-> 0, handled |-> FALSE]]
  /\ g_input = Unused /\ step = Unused /\ hist = Unused
  /\ g_ensemble = Unused /\ g_pes = Unused /\ gp_output_values = Unused
  /\ lfsr = Unused /\ recd = Unused /\ sdram = Unused /\ sim = Unused
  /\ tick = Unused /\ net = Unused /\ ehist = Unused /\ vs = Unused
  /\ NoBridge

\* A multicast packet handed to discipline_process_mc_packet.
WorkerMcRx(key, payload) ==
  /\ kernel = "worker"
  /\ chist.packets < MaxWorkerPackets
  /\ LET r == discipline_process_mc_packet(ctl, key, payload)
     IN /\ ctl' = r.c
        /\ chist' = [chist EXCEPT
             !.packets = @ + 1,
             !.pings = IF key = ctl.keys.ping THEN @ + 1 ELSE @,
             !.corrections = IF key = ctl.keys.correction THEN @ + 1 ELSE @,
             !.sent = @ \o r.sent,
             !.last = [key |-> key, payload |-> payload,
                       handled |-> r.handled]]
  /\ UNCHANGED <<kernel, ivars, evars, svars, bvars>>

\* The free-running timer counts on between packets.
WorkerClock ==
  /\ kernel = "worker"
  /\ ctl.raw < MaxWorkerTime
  /\ ctl' = [ctl EXCEPT !.raw = @ + 1]
  /\ UNCHANGED <<kernel, ivars, evars, svars, chist, bvars>>

NextWorker ==
  \/ \E key \in WorkerKeys, payload \in WorkerPayloads :
       WorkerMcRx(key, payload)
  \/ WorkerClock

SpecWorker == InitWorker /\ [][NextWorker]_vars

(* ------------------------- claims: worker ----------------------------- *)

\* C29 (per packet): a ping is answered with exactly one pong carrying the
\* raw timer value and no other packet sends anything; a correction is
\* handed to dclk_correct_phase_now when it is the first correction received
\* since initialisation and to dclk_add_correction otherwise, whatever
\* packets came before it; no other packet touches the phase.
C29_PerPacket ==
  chist'.packets = chist.packets + 1 =>
    LET key == chist'.last.key
        payload == chist'.last.payload
        phase == {"dclk_correct_phase_now", "dclk_add_correction"}
    IN /\ chist'.sent =
            IF key = DisciplineKeys.ping
            THEN Append(chist.sent, <<DisciplineKeys.pong, ctl.raw>>)
            ELSE chist.sent
       /\ IF key = DisciplineKeys.correction
          THEN ctl'.calls =
                 Append(ctl.calls,
                        Call(IF chist.corrections = 0
                             THEN "dclk_correct_phase_now"
                             ELSE "dclk_add_correction", payload))
          ELSE /\ Len(ctl'.calls) <= Len(ctl.calls) + 1
               /\ \A i \in 1 .. Len(ctl'.calls) :
                    ctl'.calls[i].fn \in phase =>
                      i <= Len(ctl.calls) /\ ctl'.calls[i] = ctl.calls[i]

\* C29 (over the run): as many pongs as pings, and among the calls into the
\* clock exactly the first phase call is the absolute one.
C29_Counts ==
  kernel = "worker" =>
    /\ Len(chist.sent) = chist.pings
    /\ Cardinality({i \in 1 .. Len(ctl.calls) :
                      ctl.calls[i].fn = "dclk_correct_phase_now"})
         = (IF chist.corrections > 0 THEN 1 ELSE 0)
    /\ Cardinality({i \in 1 .. Len(ctl.calls) :
                      ctl.calls[i].fn = "dclk_add_correction"})
         = (IF chist.corrections > 0 THEN chist.corrections - 1 ELSE 0)

\* C29: worker clock discipline, for any interleaving of ping, correction,
\* start_at and stop_at packets: the first correction received after
\* initialisation is applied as an absolute phase set and every later one
\* as a relative adjustment, and each ping is answered with exactly one
\* pong carrying the worker's raw timer value.
C29_Discipline == [][C29_PerPacket]_vars /\ []C29_Counts

\* Two corrections with a start_at between them and a ping answered once
\* the timer has moved on.
C29_Witness ==
  /\ kernel = "worker"
  /\ chist.packets = 4
  /\ Len(ctl.calls) = 3
  /\ ctl.calls[1] = Call("dclk_correct_phase_now", 7)
  /\ ctl.calls[2].fn = "dtimer_start_interrupts"
  /\ ctl.calls[3] = Call("dclk_add_correction", -2)
  /\ chist.sent = << <<DisciplineKeys.pong, 2>> >>

(* ====================================================================== *)
(* Host commands of the simulation controller                             *)
(* ====================================================================== *)

\* sim_control_cmd_t.
SIM_CTL_GET_TIME == 0
SIM_CTL_GET_DRIFT == 1
SIM_CTL_START_AT == 2
SIM_CTL_STOP_AT == 3

\* The two statics naming the start and stop keys: nothing assigns them, so
\* they keep the zero they are initialised with.
start_at_key == 0
stop_at_key == 0

\* send_sdp_reply: the message handed to spin1_send_sdp_msg.
send_sdp_reply(command, response) ==
  [dest_addr |-> 0, dest_port |-> 255, flags |-> 7, tag |-> 2,
   cmd_rc |-> command, arg1 |-> response]

\* on_sdp_rx with NOW = now: the replies sent to the host, the multicast
\* packets sent, and the number of times the mailbox entry is freed.
on_sdp_rx_leak(c, message, now) ==
  IF message.cmd_rc = SIM_CTL_GET_TIME
  THEN [replies |-> <<send_sdp_reply(SIM_CTL_GET_TIME, now)>>,
        mc |-> <<>>, freed |-> 1]
  ELSE IF message.cmd_rc = SIM_CTL_GET_DRIFT
  THEN [replies |-> <<send_sdp_reply(SIM_CTL_GET_DRIFT, c.correction_range)>>,
        mc |-> <<>>, freed |-> 1]
  ELSE IF message.cmd_rc = SIM_CTL_START_AT
  THEN [replies |-> <<>>,
        mc |-> <<[key |-> start_at_key, payload |-> message.arg1]>>,
        freed |-> 1]
  ELSE IF message.cmd_rc = SIM_CTL_STOP_AT
  THEN [replies |-> <<>>,
        mc |-> <<[key |-> stop_at_key, payload |-> message.arg1]>>,
        freed |-> 1]
  ELSE [replies |-> <<>>, mc |-> <<>>, freed |-> 0]
on_sdp_rx(c, message, now) ==
  IF message.cmd_rc = SIM_CTL_GET_TIME
  THEN [replies |-> <<send_sdp_reply(SIM_CTL_GET_TIME, now)>>,
        mc |-> <<>>, freed |-> 1]
  ELSE IF message.cmd_rc = SIM_CTL_GET_DRIFT
  THEN [replies |-> <<send_sdp_reply(SIM_CTL_GET_DRIFT, c.correction_range)>>,
        mc |-> <<>>, freed |-> 1]
  ELSE IF message.cmd_rc = SIM_CTL_START_AT
  THEN [replies |-> <<>>,
        mc |-> <<[key |-> start_at_key, payload |-> message.arg1]>>,
        freed |-> 1]
  ELSE IF message.cmd_rc = SIM_CTL_STOP_AT
  THEN [replies |-> <<>>,
        mc |-> <<[key |-> stop_at_key, payload |-> message.arg1]>>,
        freed |-> 1]
  ELSE [replies |-> <<>>, mc |-> <<>>, freed |-> 1]

\* The commands the host sends: the four of sim_control_cmd_t, the tick
\* argument of START_AT and STOP_AT in arg1, and one that is none of them.
HostCommands ==
  { [cmd_rc |-> 0, arg1 |-> 0], [cmd_rc |-> 1, arg1 |-> 0],
    [cmd_rc |-> 2, arg1 |-> 9], [cmd_rc |-> 3, arg1 |-> -1],
    [cmd_rc |-> 4, arg1 |-> 9] }
CommandDelays == {1}
CommandNodeCounts == {1, 2}

NoCommands ==
  [cmds |-> 0, replies |-> <<>>, freed |-> 0,
   last |-> [cmd_rc |-> 0, arg1 |-> 0]]

InitCommand ==
  /\ kernel = "command"
  /\ \E k \in CommandNodeCounts, t0 \in StartTimes :
       ctl = LoadController(k, t0)
  /\ chist = [ticks |-> 0, pongs |-> 0, missed |-> 0, rounds |-> 0,
              answered |-> FALSE,
              open |-> {}, last_of |-> 0, stamp_of |-> 0,
              pings |-> <<>>, round |-> <<>>, sent |-> <<>>,
              last_ping |-> [n \in CtlNodes(ctl) |-> 0],
              last_rx |-> [key |-> 0, remote_time |-> 0]]
  /\ net = <<>>
  /\ host = NoCommands
  /\ g_input = Unused /\ step = Unused /\ hist = Unused
  /\ g_ensemble = Unused /\ g_pes = Unused /\ gp_output_values = Unused
  /\ lfsr = Unused /\ recd = Unused /\ sdram = Unused /\ sim = Unused
  /\ tick = Unused /\ ehist = Unused /\ vs = Unused
  /\ rx = Unused /\ flt = Unused /\ tx = Unused

\* SDP_PACKET_RX, priority 0: on_sdp_rx runs to completion at any point of
\* on_timer_tick (priority 1).
CommandRx(message, dt) ==
  /\ kernel = "command"
  /\ host.cmds < MaxCmds
  /\ LET now == Add32(ctl.now, dt)
         r == on_sdp_rx(ctl, message, now)
     IN /\ ctl' = [ctl EXCEPT !.now = now]
        /\ net' = net \o r.mc
        /\ host' = [host EXCEPT
             !.cmds = @ + 1,
             !.replies = @ \o r.replies,
             !.freed = @ + r.freed,
             !.last = message]
  /\ UNCHANGED <<kernel, g_input, step, hist, g_ensemble, g_pes,
                 gp_output_values, lfsr, recd, sdram, sim, tick, ehist,
                 svars, chist, rx, flt, tx>>

NextCommand ==
  \/ \E key \in PongKeys, pong \in Pongs :
       on_mcpl_rx(key, pong.remote_time, pong.dt)
  \/ TickCollect
  \/ TickAdvance
  \/ TickStamp
  \/ \E message \in HostCommands, dt \in CommandDelays :
       CommandRx(message, dt)

SpecCommand == InitCommand /\ [][NextCommand]_vars

(* ---------------------- claims: host commands ------------------------- *)

\* C30 (per command): GET_TIME sends one reply with NOW in arg1, GET_DRIFT
\* one reply with correction_range in arg1, START_AT(t) one multicast
\* (start_at_key, t), STOP_AT(t) one multicast (stop_at_key, t), any other
\* command nothing; the state of the ping round is left as it was and the
\* mailbox entry is freed once.
C30_PerCommand ==
  (kernel = "command" /\ host'.cmds = host.cmds + 1) =>
    LET cmd == host'.last.cmd_rc
        t == host'.last.arg1
    IN /\ host'.replies =
            IF cmd = SIM_CTL_GET_TIME
            THEN Append(host.replies,
                        [dest_addr |-> 0, dest_port |-> 255, flags |-> 7,
                         tag |-> 2, cmd_rc |-> 0, arg1 |-> ctl'.now])
            ELSE IF cmd = SIM_CTL_GET_DRIFT
            THEN Append(host.replies,
                        [dest_addr |-> 0, dest_port |-> 255, flags |-> 7,
                         tag |-> 2, cmd_rc |-> 1,
                         arg1 |-> ctl.correction_range])
            ELSE host.replies
       /\ net' =
            IF cmd = SIM_CTL_START_AT
            THEN Append(net, [key |-> start_at_key, payload |-> t])
            ELSE IF cmd = SIM_CTL_STOP_AT
            THEN Append(net, [key |-> stop_at_key, payload |-> t])
            ELSE net
       /\ [ctl' EXCEPT !.now = ctl.now] = ctl
       /\ chist' = chist
       /\ host'.freed = host.freed + 1

\* C30 (over the run): a command is the only thing that sends a reply, and
\* every mailbox entry received has been freed exactly once.
C30_Freed ==
  kernel = "command" =>
    /\ host.freed = host.cmds
    /\ Len(host.replies) <= host.cmds

====
